---- MODULE Spec2Model ----
(***************************************************************************)
(* RPCFramework: method registry, dispatcher and the two protocol adapters *)
(* (HTTPTransport and the STDIO path of RPCMethodRegistry).                *)
(*                                                                         *)
(* JSON values are tagged records so that values of different Python types *)
(* can be compared: null, int n, float n/d (reduced), str of length n.     *)
(* Exceptions are records carrying the Python type and what str(e) and     *)
(* to_dict() need.                                                         *)
(***************************************************************************)
EXTENDS Integers, Sequences, FiniteSets, TLC

\* ------------------------------------------------------------------ bounds
MaxNum == 1
MaxArgs == 3
MaxMethods == 2
MaxBatch == 2
MaxPending == 2

\* ------------------------------------------------------------ JSON values
Null == [t |-> "null"]
IntV(n) == [t |-> "int", n |-> n]
StrV(n) == [t |-> "str", n |-> n]
FloatV(n, d) == [t |-> "float", n |-> n, d |-> d]

\* values a request can carry as a parameter
ParamVals == {IntV(n) : n \in 0..MaxNum} \cup {StrV(1)}

RECURSIVE Gcd(_, _)
Gcd(a, b) == IF b = 0 THEN a ELSE Gcd(b, a % b)

\* ------------------------------------------------------------- exceptions
NoData == [kind |-> "none"]
PyExc(type, text) == [type |-> type, text |-> text]
JSONRPCError(code, message, data) ==
    [type |-> "JSONRPCError", code |-> code, message |-> message, data |-> data]

\* str(e): a dataclass exception keeps its constructor arguments in args, so
\* str() of a JSONRPCError is the tuple of its three fields; a builtin
\* exception prints its message.
StrOf(e) ==
    IF e.type = "JSONRPCError"
    THEN [kind |-> "args", code |-> e.code, message |-> e.message, data |-> e.data]
    ELSE [kind |-> "text", text |-> e.text]

to_dict(e) ==
    IF e.data # NoData
    THEN [keys |-> {"code", "message", "data"}, code |-> e.code,
          message |-> e.message, data |-> e.data]
    ELSE [keys |-> {"code", "message"}, code |-> e.code,
          message |-> e.message, data |-> NoData]

PARSE_ERROR(d) == JSONRPCError(-32700, "Parse error", d)
INVALID_REQUEST(d) == JSONRPCError(-32600, "Invalid Request", d)
METHOD_NOT_FOUND(d) == JSONRPCError(-32601, "Method not found", d)
INVALID_PARAMS(d) == JSONRPCError(-32602, "Invalid params", d)

Reason(s) == [kind |-> "reason", str |-> s]
Text(s) == [kind |-> "text", text |-> s]

\* ---------------------------------------------------------------- outcomes
\* calls counts the executions of the handler body
Ret(v, c) == [ok |-> TRUE, val |-> v, calls |-> c]
Raise(e, c) == [ok |-> FALSE, exc |-> e, calls |-> c]

\* ---------------------------------------------------------------- handlers
\* a + b in Python
PyAdd(a, b) ==
    IF a.t = "int" /\ b.t = "int" THEN Ret(IntV(a.n + b.n), 1)
    ELSE IF a.t = "str" /\ b.t = "str" THEN Ret(StrV(a.n + b.n), 1)
    ELSE Raise(PyExc("TypeError", "unsupported operand type(s) for +"), 1)

\* a / b in Python (true division, the quotient is a float)
PyDiv(a, b) ==
    IF a.t = "int" /\ b.t = "int"
    THEN IF b.n = 0
         THEN Raise(PyExc("ZeroDivisionError", "division by zero"), 1)
         ELSE Ret(FloatV(a.n \div Gcd(a.n, b.n), b.n \div Gcd(a.n, b.n)), 1)
    ELSE Raise(PyExc("TypeError", "unsupported operand type(s) for /"), 1)

\* The functions an agent program hands to register(): add and divide of
\* main.py, the zero-argument get_balance of the invoice example, and three
\* further handlers a program may register: an asynchronous add, a procedure
\* returning None and a handler raising a protocol error of its own.
HandlerPool ==
    { [name |-> "add", params |-> <<"a", "b">>, is_async |-> FALSE, body |-> "add"],
      [name |-> "add", params |-> <<"a", "b">>, is_async |-> TRUE, body |-> "add"],
      [name |-> "divide", params |-> <<"a", "b">>, is_async |-> FALSE, body |-> "divide"],
      [name |-> "get_balance", params |-> <<>>, is_async |-> FALSE, body |-> "balance"],
      [name |-> "noop", params |-> <<>>, is_async |-> FALSE, body |-> "none"],
      [name |-> "reject", params |-> <<>>, is_async |-> FALSE, body |-> "reject"] }

\* the body of a handler run on its bound arguments
Body(fn, args) ==
    CASE fn.body = "add" -> PyAdd(args["a"], args["b"])
      [] fn.body = "divide" -> PyDiv(args["a"], args["b"])
      [] fn.body = "balance" -> Ret(IntV(0), 1)
      [] fn.body = "none" -> Ret(Null, 1)
      [] fn.body = "reject" -> Raise(INVALID_PARAMS(Reason(Text("rejected by handler"))), 1)

\* ------------------------------------------------------------ param shapes
NoParams == [shape |-> "none"]
ListParams(s) == [shape |-> "list", items |-> s]
DictParams(d) == [shape |-> "dict", map |-> d]
OtherParams == [shape |-> "other"]

RangeOf(s) == {s[i] : i \in DOMAIN s}
IndexOf(s, x) == CHOOSE i \in DOMAIN s : s[i] = x

\* Python's binding of a call fn(*args) / fn(**kwargs) / fn() to the
\* signature of fn (no defaults): the bound arguments or a TypeError.
BindPositional(fn, items) ==
    IF Len(items) > Len(fn.params)
    THEN Raise(PyExc("TypeError", "takes fewer positional arguments"), 0)
    ELSE IF Len(items) < Len(fn.params)
    THEN Raise(PyExc("TypeError", "missing required positional argument"), 0)
    ELSE Ret([p \in RangeOf(fn.params) |-> items[IndexOf(fn.params, p)]], 0)

BindNamed(fn, map) ==
    IF ~(DOMAIN map \subseteq RangeOf(fn.params))
    THEN Raise(PyExc("TypeError", "got an unexpected keyword argument"), 0)
    ELSE IF DOMAIN map # RangeOf(fn.params)
    THEN Raise(PyExc("TypeError", "missing required positional argument"), 0)
    ELSE Ret(map, 0)

\* Bind with a list handed over as one argument instead of being spread
Bind_unspread(fn, params) ==
    CASE params.shape = "none" -> BindPositional(fn, <<>>)
      [] params.shape = "list" -> BindPositional(fn, <<params.items>>)
      [] params.shape = "dict" -> BindNamed(fn, params.map)

Bind(fn, params) ==
    CASE params.shape = "none" -> BindPositional(fn, <<>>)
      [] params.shape = "list" -> BindPositional(fn, params.items)
      [] params.shape = "dict" -> BindNamed(fn, params.map)

\* _call_fn(fn, params).  fn is the registry's _MethodWrapper, a plain
\* callable object, so inspect.iscoroutinefunction(fn) is False for every
\* registered handler: the wrapper is called inside the try block, and an
\* asynchronous handler returns a coroutine there whose body runs at the
\* later "await result", outside the except TypeError clause.
\* r is what running the handler gave
_call_fn_result(fn, r) ==
    IF r.ok THEN r
    ELSE IF r.exc.type = "TypeError" /\ ~fn.is_async
    THEN Raise(INVALID_PARAMS(Reason(StrOf(r.exc))), r.calls)
    ELSE r

\* b is what binding the parameters to the signature gave
_call_fn_bound(fn, b) ==
    IF ~b.ok
    THEN Raise(INVALID_PARAMS(Reason(StrOf(b.exc))), 0)
    ELSE _call_fn_result(fn, Body(fn, b.val))

_call_fn(fn, params) ==
    IF params.shape = "other"
    THEN Raise(INVALID_PARAMS(Reason(Text("params must be list or dict or null"))), 0)
    ELSE _call_fn_bound(fn, Bind(fn, params))

\* ---------------------------------------------------------------- registry
\* RPCMethodRegistry.get: a missing key raises KeyError, and the handler of
\* that KeyError evaluates METHOD_NOT_FOUND, a name registry.py never
\* imports: the lookup ends in a NameError.
get(methods, method_name) ==
    IF method_name \in DOMAIN methods
    THEN Ret(methods[method_name], 0)
    ELSE Raise(PyExc("NameError", "name 'METHOD_NOT_FOUND' is not defined"), 0)

\* RPCDispatcher.dispatch: every exception of the lookup or of the call,
\* JSONRPCError included, is wrapped into JSONRPCError(-32000).
ExceptionData(e) == [kind |-> "exception", str |-> StrOf(e)]

\* r is what _call_fn gave
dispatch_result(r, request_id) ==
    IF r.ok
    THEN Ret([result |-> r.val, id |-> request_id], r.calls)
    ELSE Raise(JSONRPCError(-32000, "Server error", ExceptionData(r.exc)), r.calls)

\* g is what the lookup in the registry gave
dispatch_found(g, params, request_id) ==
    IF ~g.ok
    THEN Raise(JSONRPCError(-32000, "Server error", ExceptionData(g.exc)), 0)
    ELSE dispatch_result(_call_fn(g.val, params), request_id)

\* dispatch letting the exceptions of the lookup and of the call through
dispatch_reraise(methods, method, params, request_id) ==
    LET g == get(methods, method) IN
    IF ~g.ok
    THEN g
    ELSE LET r == _call_fn(g.val, params) IN
         IF r.ok
         THEN Ret([result |-> r.val, id |-> request_id], r.calls)
         ELSE r

dispatch(methods, method, params, request_id) ==
    dispatch_found(get(methods, method), params, request_id)

\* ------------------------------------------------------- wire envelopes
\* A decoded JSON item is an object with some of the envelope's keys, or
\* something that is not an object at all.  id is absent, null, a number, a
\* string, or a value of another JSON type (an array).
Methods == {"add", "divide", "get_balance", "noop", "reject", "nosuch"}
MethodFields ==
    {[p |-> "absent", name |-> ""], [p |-> "bad", name |-> ""]}
        \cup {[p |-> "str", name |-> m] : m \in Methods}
Keys == {"a", "b", "c"}
ListsUpTo(n) == UNION {[1..k -> ParamVals] : k \in 0..n}
Dicts == UNION {[K -> ParamVals] : K \in SUBSET Keys}
BoundParams ==
    {NoParams} \cup {ListParams(s) : s \in ListsUpTo(MaxArgs)}
        \cup {DictParams(d) : d \in Dicts}
WireParams == BoundParams \cup {OtherParams}
AbsentId == [t |-> "absent"]
ArrayId == [t |-> "array"]
Ids == {AbsentId, Null, IntV(0), StrV(1), ArrayId}
ScalarItem == [kind |-> "scalar"]
Envelope(j, m, p, i) ==
    [kind |-> "object", jsonrpc |-> j, method |-> m, params |-> p, id |-> i]
Str(m) == [p |-> "str", name |-> m]

\* every way of passing parameters, to every method
FullParamItems ==
    {Envelope("2.0", Str(m), p, IntV(0)) : m \in Methods, p \in BoundParams}
\* every shape of method and id, with one params value of each shape; an
\* envelope whose jsonrpc is not a string; an item that is no object
SampleParams ==
    {NoParams, ListParams(<<IntV(0), IntV(1)>>),
     DictParams([a |-> IntV(1), b |-> IntV(0)]), OtherParams}
ShapeItems ==
    {Envelope("2.0", m, p, i) : m \in MethodFields, p \in SampleParams, i \in Ids}
        \cup {Envelope("bad", Str("add"), NoParams, i) : i \in Ids}
        \cup {ScalarItem}
Items == FullParamItems \cup ShapeItems

\* RPCRequest.parse_obj: method is a required str, params is None, a list
\* or a dict, id is None, an int or a str, jsonrpc is a str.
ValidationError == PyExc("ValidationError", "validation error")
parse_obj(item) ==
    IF item.kind # "object" THEN Raise(ValidationError, 0)
    ELSE IF \/ item.jsonrpc = "bad"
            \/ item.method.p # "str"
            \/ item.params.shape = "other"
            \/ item.id.t \notin {"absent", "null", "int", "str"}
    THEN Raise(ValidationError, 0)
    ELSE Ret([method |-> item.method.name, params |-> item.params,
              id |-> IF item.id.t = "absent" THEN Null ELSE item.id], 0)

\* item.get("id")
GetId(item) == IF item.id.t = "absent" THEN Null ELSE item.id

\* --------------------------------------------------------------- responses
NoError == [keys |-> {}, code |-> 0, message |-> "", data |-> NoData]

\* RPCResponse(result=, error=, id=).dict(exclude_none=True): the fields are
\* validated (error is None or an error object, id is None, an int or a str)
\* and every field whose value is None is left out of the dict.
RPCResponseDict(result, error, id) ==
    IF id.t \notin {"null", "int", "str"} THEN Raise(ValidationError, 0)
    ELSE IF "type" \in DOMAIN error THEN Raise(ValidationError, 0)
    ELSE Ret([keys |-> {"jsonrpc"}
                        \cup (IF result # Null THEN {"result"} ELSE {})
                        \cup (IF error # NoError THEN {"error"} ELSE {})
                        \cup (IF id # Null THEN {"id"} ELSE {}),
              result |-> result, error |-> error, id |-> id], 0)

\* the outcome of one _handle_single: the response dict (has = FALSE for
\* None), the exception that escaped it ("none" when it returned), and the
\* record of what was done with the item
NoResp == [keys |-> {}, result |-> Null, error |-> NoError, id |-> Null]
Single(has, resp, exc, kind, out) ==
    [has |-> has, resp |-> resp, exc |-> exc, kind |-> kind, out |-> out]

FromResponse(r, kind, out) ==
    IF r.ok THEN Single(TRUE, r.val, "none", kind, out)
    ELSE Single(FALSE, NoResp, r.exc.type, kind, out)

\* HTTPTransport._make_response: an error with to_dict gives its dict, any
\* other exception the generic {"code": -32000, "message": str(error)}
HTTP_make_response(result, error, id) ==
    RPCResponseDict(result,
                    IF error = NoError THEN NoError
                    ELSE IF error.type = "JSONRPCError" THEN to_dict(error)
                    ELSE [keys |-> {"code", "message"}, code |-> -32000,
                          message |-> error.text, data |-> NoData],
                    id)

\* HTTPTransport._handle_single.  The except clause of the parse builds a
\* JSONRPCError, a name http.py does not import: a payload that does not
\* parse ends the method with a NameError.
HTTP_handle_single_call(d, id) ==
    IF d.ok
    THEN FromResponse(HTTP_make_response(d.val.result, NoError, id), "call", d)
    ELSE FromResponse(HTTP_make_response(Null, d.exc, id), "call", d)

HTTP_handle_single_req(methods, req) ==
    IF req.id = Null
    THEN Single(FALSE, NoResp, "none", "notification",
                dispatch(methods, req.method, req.params, Null))
    ELSE HTTP_handle_single_call(dispatch(methods, req.method, req.params, req.id), req.id)

HTTP_handle_single_parsed(methods, p) ==
    IF ~p.ok THEN Single(FALSE, NoResp, "NameError", "malformed", p)
    ELSE HTTP_handle_single_req(methods, p.val)

\* _handle_single taking every falsy id (0, "") for a notification
HTTP_handle_single_falsy_id(methods, item) ==
    LET p == parse_obj(item) IN
    IF ~p.ok THEN Single(FALSE, NoResp, "NameError", "malformed", p)
    ELSE LET req == p.val IN
         IF req.id \in {Null, IntV(0), StrV(0)}
         THEN Single(FALSE, NoResp, "none", "notification",
                     dispatch(methods, req.method, req.params, Null))
         ELSE LET d == dispatch(methods, req.method, req.params, req.id) IN
              IF d.ok
              THEN FromResponse(HTTP_make_response(d.val.result, NoError, req.id), "call", d)
              ELSE FromResponse(HTTP_make_response(Null, d.exc, req.id), "call", d)

\* _handle_single without the try/except around a notification's dispatch
HTTP_handle_single_unguarded(methods, item) ==
    LET p == parse_obj(item) IN
    IF ~p.ok THEN Single(FALSE, NoResp, "NameError", "malformed", p)
    ELSE LET req == p.val IN
         IF req.id = Null
         THEN LET d == dispatch(methods, req.method, req.params, Null) IN
              Single(FALSE, NoResp, IF d.ok THEN "none" ELSE d.exc.type,
                     "notification", d)
         ELSE LET d == dispatch(methods, req.method, req.params, req.id) IN
              IF d.ok
              THEN FromResponse(HTTP_make_response(d.val.result, NoError, req.id), "call", d)
              ELSE FromResponse(HTTP_make_response(Null, d.exc, req.id), "call", d)

HTTP_handle_single(methods, item) ==
    HTTP_handle_single_parsed(methods, parse_obj(item))

\* RPCMethodRegistry._make_response: an error without to_dict is handed to
\* RPCResponse as it is.
REG_make_response(result, error, id) ==
    RPCResponseDict(result,
                    IF error = NoError THEN NoError
                    ELSE IF error.type = "JSONRPCError" THEN to_dict(error)
                    ELSE error,
                    id)

AttributeError == PyExc("AttributeError", "'NoneType' object has no attribute 'dispatch'")

\* self._dispatcher.dispatch(...): _dispatcher is None until
\* _setup_fastapi_app has built it.
REG_dispatch(has_dispatcher, methods, method, params, request_id) ==
    IF has_dispatcher THEN dispatch(methods, method, params, request_id)
    ELSE Raise(AttributeError, 0)

\* RPCMethodRegistry._handle_single
REG_handle_single_call(d, id) ==
    IF d.ok
    THEN FromResponse(REG_make_response(d.val.result, NoError, id), "call", d)
    ELSE FromResponse(REG_make_response(Null, d.exc, id), "call", d)

REG_handle_single_req(has_dispatcher, methods, req) ==
    IF req.id = Null
    THEN Single(FALSE, NoResp, "none", "notification",
                REG_dispatch(has_dispatcher, methods, req.method, req.params, Null))
    ELSE REG_handle_single_call(
             REG_dispatch(has_dispatcher, methods, req.method, req.params, req.id), req.id)

REG_handle_single_parsed(has_dispatcher, methods, item, p) ==
    IF ~p.ok
    THEN IF item.kind # "object"
         THEN Single(FALSE, NoResp, "AttributeError", "malformed", p)
         ELSE FromResponse(
                  REG_make_response(Null, INVALID_REQUEST(StrOf(p.exc)), GetId(item)),
                  "malformed", p)
    ELSE REG_handle_single_req(has_dispatcher, methods, p.val)

REG_handle_single(has_dispatcher, methods, item) ==
    REG_handle_single_parsed(has_dispatcher, methods, item, parse_obj(item))

\* ------------------------------------------------------------ whole payloads
\* what one request leaves behind: the HTTP status (0 on STDIO), whether the
\* body is a JSON array, the response dicts of the body, the exception that
\* escaped the adapter ("none" if it returned) and the items it went through
Outcome(status, array, body, exc, log) ==
    [status |-> status, array |-> array, body |-> body, exc |-> exc, log |-> log]

HasResp(s) == s.has
Resps(singles) == [i \in DOMAIN SelectSeq(singles, HasResp) |->
                       SelectSeq(singles, HasResp)[i].resp]

\* the items of a list are handled one after the other; an exception leaving
\* one _handle_single ends the comprehension
Crashed(singles) == {i \in DOMAIN singles : singles[i].exc # "none"}
FirstCrash(singles) == CHOOSE i \in Crashed(singles) : \A j \in Crashed(singles) : i <= j
Done(singles) ==
    IF Crashed(singles) = {} THEN singles ELSE SubSeq(singles, 1, FirstCrash(singles))
\* the exception leaves the adapter
Aborted(status, done) == Outcome(status, FALSE, <<>>, done[Len(done)].exc, done)

\* HTTPTransport._error_response
_error_response(error, id, status) ==
    Outcome(status, FALSE, <<RPCResponseDict(Null, to_dict(error), id).val>>, "none", <<>>)

\* HTTPTransport.handle
\* handle answering a batch of notifications with an empty array
HTTP_handle_response_empty_array(req, singles) ==
    IF Crashed(singles) # {}
    THEN Aborted(500, Done(singles))
    ELSE IF req.array
    THEN Outcome(200, TRUE, Resps(singles), "none", singles)
    ELSE IF singles[1].has
         THEN Outcome(200, FALSE, <<singles[1].resp>>, "none", singles)
         ELSE Outcome(204, FALSE, <<>>, "none", singles)

\* singles is what _handle_single gave for each item of the payload
HTTP_handle_response(req, singles) ==
    IF Crashed(singles) # {}
    THEN Aborted(500, Done(singles))
    ELSE IF req.array
    THEN IF Resps(singles) # <<>>
         THEN Outcome(200, TRUE, Resps(singles), "none", singles)
         ELSE Outcome(204, FALSE, <<>>, "none", singles)
    ELSE IF singles[1].has
         THEN Outcome(200, FALSE, <<singles[1].resp>>, "none", singles)
         ELSE Outcome(204, FALSE, <<>>, "none", singles)

\* json.loads(raw) on bytes decodes them first: a body that is no UTF-8,
\* UTF-16 or UTF-32 text raises UnicodeDecodeError, a ValueError that is no
\* JSONDecodeError, and the exception leaves handle
HTTP_handle(methods, req) ==
    IF req.raw = "empty"
    THEN _error_response(INVALID_REQUEST(Text("empty body")), Null, 400)
    ELSE IF req.raw = "garbage"
    THEN _error_response(PARSE_ERROR(Text("Expecting value")), Null, 400)
    ELSE IF req.raw = "undecodable"
    THEN Outcome(500, FALSE, <<>>, "UnicodeDecodeError", <<>>)
    ELSE HTTP_handle_response(
             req, [i \in DOMAIN req.items |-> HTTP_handle_single(methods, req.items[i])])

\* RPCMethodRegistry._handle_payload under _run_stdio_async: the response is
\* printed if it is truthy, an exception is logged and the loop goes on
REG_handle_payload_response(req, singles) ==
    IF Crashed(singles) # {}
    THEN Aborted(0, Done(singles))
    ELSE IF req.array
    THEN Outcome(0, Resps(singles) # <<>>, Resps(singles), "none", singles)
    ELSE Outcome(0, FALSE, Resps(singles), "none", singles)

REG_handle_payload(has_dispatcher, methods, req) ==
    IF req.raw = "garbage"
    THEN Outcome(0, FALSE, <<>>, "JSONDecodeError", <<>>)
    ELSE REG_handle_payload_response(
             req, [i \in DOMAIN req.items |->
                      REG_handle_single(has_dispatcher, methods, req.items[i])])

\* RPCDispatcher.dispatch called on its own
Direct_outcome(d) ==
    Outcome(0, FALSE, <<>>, IF d.ok THEN "none" ELSE d.exc.type,
            <<Single(FALSE, NoResp, "none", "direct", d)>>)

Direct(methods, req) ==
    Direct_outcome(dispatch(methods, req.items[1].method.name,
                            req.items[1].params, req.items[1].id))

\* ---------------------------------------------------------------- requests
Request(via, raw, array, items) ==
    [via |-> via, raw |-> raw, array |-> array, items |-> items]
NoRequest == Request("none", "json", FALSE, <<>>)
NoOutcome == Outcome(0, FALSE, <<>>, "none", <<>>)

\* the items batches are built from: calls that succeed, fail and name no
\* method, notifications, envelopes without a method and a non-object
BatchItems ==
    { Envelope("2.0", Str("add"), ListParams(<<IntV(0), IntV(1)>>), IntV(0)),
      Envelope("2.0", Str("divide"), DictParams([a |-> IntV(1), b |-> IntV(0)]), StrV(1)),
      Envelope("2.0", Str("noop"), NoParams, StrV(1)),
      Envelope("2.0", Str("nosuch"), NoParams, IntV(0)),
      Envelope("2.0", Str("add"), ListParams(<<IntV(1), IntV(1)>>), AbsentId),
      Envelope("2.0", Str("divide"), ListParams(<<IntV(1), IntV(0)>>), Null),
      Envelope("2.0", [p |-> "absent", name |-> ""], NoParams, IntV(0)),
      Envelope("2.0", [p |-> "absent", name |-> ""], NoParams, AbsentId),
      ScalarItem }
Batches == UNION {[1..k -> BatchItems] : k \in 0..MaxBatch}

Payloads ==
    {Request("http", "json", FALSE, <<it>>) : it \in Items}
        \cup {Request("stdio", "json", FALSE, <<it>>) : it \in ShapeItems}
        \cup {Request(v, "json", TRUE, b) : v \in {"http", "stdio"}, b \in Batches}
        \cup {Request(v, "garbage", FALSE, <<>>) : v \in {"http", "stdio"}}
        \cup {Request("http", "empty", FALSE, <<>>)}
        \cup {Request("http", "undecodable", FALSE, <<>>)}

DirectCalls ==
    {Request("dispatch", "json", FALSE, <<Envelope("2.0", Str(m), p, i)>>) :
        m \in Methods, p \in SampleParams, i \in {Null, IntV(0)}}

Requests == Payloads \cup DirectCalls

\* ------------------------------------------------------ discovery directory
\* Text values of the directory: a Python str is TextV(s), None and SQL NULL
\* are Null.  The conversions between an AgentCard and its row are kept as
\* wrappers: str(url), json.dumps(x) and isoformat() give a TEXT value that
\* HttpUrl(...), json.loads and fromisoformat turn back.
TextV(s) == [t |-> "text", s |-> s]
HttpUrl(host) == [t |-> "url", host |-> host]
UrlStr(u) == [t |-> "urltext", of |-> u]
UrlParse(x) == x.of
json_dumps(x) == [t |-> "jsontext", of |-> x]
json_loads(x) == x.of
isoformat(ts) == [t |-> "isotext", of |-> ts]
fromisoformat(x) == x.of
Dict(keys) == [t |-> "dict", keys |-> keys]
\* truth value of a column: NULL and the empty string are falsy
Truthy(x) == x # Null /\ x # TextV("")

AgentCard(name, version, endpoint, health_url, capabilities, description, registered_at, meta) ==
    [name |-> name, version |-> version, endpoint |-> endpoint,
     health_url |-> health_url, capabilities |-> capabilities,
     description |-> description, registered_at |-> registered_at, meta |-> meta]

\* the card on_startup builds: no health_url, the default meta
StartupCard(n) ==
    AgentCard(n, "1.0.0", HttpUrl("h1"), Null, <<"pay", "refund">>,
              TextV("RPC service"), 0, Dict({}))
\* the cards sent to /register: the startup card of each name and, for one
\* name, a card with every optional field absent and one with every field
\* set; their capability lists differ by case and by a longer name
AgentNames == {"billing", "support"}
CardPool ==
    {StartupCard(n) : n \in AgentNames} \cup
    { AgentCard("billing", "1.0.0", HttpUrl("h2"), Null, <<"Pay">>, Null, 1, Null),
      AgentCard("billing", "2.0.0", HttpUrl("h2"), HttpUrl("h2"), <<"payments">>,
                TextV(""), 1, Dict({"region"})) }
Capabilities == {"pay", "Pay", "payments", "ship"}

\* the row register_agent hands to INSERT OR REPLACE
RowOf(agent) ==
    [name |-> agent.name,
     version |-> agent.version,
     endpoint |-> UrlStr(agent.endpoint),
     health_url |-> IF agent.health_url # Null THEN UrlStr(agent.health_url) ELSE Null,
     capabilities |-> json_dumps(agent.capabilities),
     description |-> agent.description,
     registered_at |-> isoformat(agent.registered_at),
     meta |-> json_dumps(agent.meta)]

\* CardOfRow reading a meta of null as the empty dict
CardOfRow_null_meta(row) ==
    AgentCard(row.name, row.version, UrlParse(row.endpoint),
              IF Truthy(row.health_url) THEN UrlParse(row.health_url) ELSE Null,
              json_loads(row.capabilities), row.description,
              fromisoformat(row.registered_at),
              IF json_loads(row.meta) # Null THEN json_loads(row.meta) ELSE Dict({}))

\* the AgentCard discover_agent and list_agents build from a row
CardOfRow(row) ==
    AgentCard(row.name, row.version, UrlParse(row.endpoint),
              IF Truthy(row.health_url) THEN UrlParse(row.health_url) ELSE Null,
              json_loads(row.capabilities), row.description,
              fromisoformat(row.registered_at),
              IF Truthy(row.meta) THEN json_loads(row.meta) ELSE Dict({}))

\* INSERT without the primary key on name
Insert(rows, row) == rows \cup {row}

\* INSERT OR REPLACE under PRIMARY KEY (name)
InsertOrReplace(rows, row) == {r \in rows : r.name # row.name} \cup {row}

\* DELETE FROM agents WHERE name = ?
Delete(rows, name) == {r \in rows : r.name # name}

\* what a directory endpoint leaves behind: the HTTP status, the cards of
\* the body, the connection's rows and the rows of the database file
DirResult(status, cards, c, d) == [status |-> status, cards |-> cards, conn |-> c, db |-> d]

\* register_agent storing the card without conn.commit()
register_agent_uncommitted(c, d, agent, fault) ==
    IF fault THEN DirResult(500, {}, c, d)
    ELSE DirResult(201, {agent}, InsertOrReplace(c, RowOf(agent)), d)

\* register_agent keeping the capabilities of the row it replaces
register_agent_merged(c, d, agent, fault) ==
    LET merged == {IF r.name = agent.name
                   THEN [RowOf(agent) EXCEPT !.capabilities = r.capabilities]
                   ELSE r : r \in c} \cup
                      (IF \E r \in c : r.name = agent.name THEN {} ELSE {RowOf(agent)})
    IN  IF fault THEN DirResult(500, {}, c, d)
        ELSE DirResult(201, {agent}, merged, merged)

\* register_agent: c are the rows the connection sees, d the rows of the
\* database file; fault is a storage failure raised by cursor.execute
register_agent(c, d, agent, fault) ==
    IF fault THEN DirResult(500, {}, c, d)
    ELSE DirResult(201, {agent},
                   InsertOrReplace(c, RowOf(agent)), InsertOrReplace(c, RowOf(agent)))

\* the rows whose capabilities hold the method as an element
Providers(rows, method) ==
    {r \in rows : method \in RangeOf(json_loads(r.capabilities))}

\* SQL LIKE '%method%' on the lower-cased name, over the names of the model
LikeMatch(method, cap) ==
    \/ method = cap
    \/ method \in {"pay", "Pay"} /\ cap \in {"pay", "Pay", "payments"}
ProvidersLike(rows, method) ==
    {r \in rows : \E cap \in RangeOf(json_loads(r.capabilities)) : LikeMatch(method, cap)}

\* discover_agent matching with LIKE instead of list membership
discover_agent_like(c, d, method, fault) ==
    IF fault THEN DirResult(500, {}, c, d)
    ELSE IF ProvidersLike(c, method) = {} THEN DirResult(404, {}, c, d)
    ELSE DirResult(200, {CardOfRow(r) : r \in ProvidersLike(c, method)}, c, d)

\* discover_agent answering an empty result like a storage failure
discover_agent_empty_500(c, d, method, fault) ==
    IF fault THEN DirResult(500, {}, c, d)
    ELSE IF Providers(c, method) = {} THEN DirResult(500, {}, c, d)
    ELSE DirResult(200, {CardOfRow(r) : r \in Providers(c, method)}, c, d)

\* discover_agent: an exception of the query is not caught (500)
discover_agent(c, d, method, fault) ==
    IF fault THEN DirResult(500, {}, c, d)
    ELSE IF Providers(c, method) = {} THEN DirResult(404, {}, c, d)
    ELSE DirResult(200, {CardOfRow(r) : r \in Providers(c, method)}, c, d)

list_agents(c, d, fault) ==
    IF fault THEN DirResult(500, {}, c, d)
    ELSE DirResult(200, {CardOfRow(r) : r \in c}, c, d)

\* deregister_agent answering 204 whatever cursor.rowcount is
deregister_agent_always_ok(c, d, agent_name, fault) ==
    IF fault THEN DirResult(500, {}, c, d)
    ELSE DirResult(204, {}, Delete(c, agent_name), Delete(c, agent_name))

\* deregister_agent: DELETE, commit, then 404 if cursor.rowcount is 0
deregister_agent(c, d, agent_name, fault) ==
    IF fault THEN DirResult(500, {}, c, d)
    ELSE IF Cardinality({r \in c : r.name = agent_name}) = 0
    THEN DirResult(404, {}, Delete(c, agent_name), Delete(c, agent_name))
    ELSE DirResult(204, {}, Delete(c, agent_name), Delete(c, agent_name))

\* what the client's GET /discover ends in: a response with a status and a
\* JSON body, or an httpx.RequestError (connection refused, timeout)
Response(status, cards) == [kind |-> "response", status |-> status, cards |-> cards]
RequestError(type) == [kind |-> "error", type |-> type, cards |-> {}]
NetOutcomes == {"ok", "ConnectError", "ReadTimeout"}

\* find_agents answering every failure with an empty list
find_agents_swallow(exchange) ==
    IF exchange.kind = "response" /\ exchange.status < 400
    THEN Ret(exchange.cards, 0)
    ELSE Ret({}, 0)

\* DiscoveryClient.find_agents on the outcome of its GET
find_agents(exchange) ==
    IF exchange.kind = "error"
    THEN Raise(PyExc(exchange.type, "network error"), 0)
    ELSE IF exchange.status < 400
    THEN Ret(exchange.cards, 0)
    ELSE IF exchange.status = 404
    THEN Ret({}, 0)
    ELSE Raise(PyExc("HTTPStatusError", "error status"), 0)

\* -------------------------------------------------------------- RPC client
\* The URLs of two agent hosts: the bare http://host:port that on_startup
\* puts into the card, and the URL of the route /jsonrpc the app serves.
EndpointPool ==
    {HttpUrl("h1"), HttpUrl("h1/jsonrpc"), HttpUrl("h2"), HttpUrl("h2/jsonrpc")}
\* app.post("/jsonrpc"): the only POST route of an agent
Routed(url) == url.host \in {"h1/jsonrpc", "h2/jsonrpc"}
\* the agent process listening at the host of a url
ListensAt(url) == IF url.host \in {"h1", "h1/jsonrpc"} THEN "billing" ELSE "support"
UrlOf(n, route) ==
    IF n = "billing"
    THEN (IF route = "jsonrpc" THEN HttpUrl("h1/jsonrpc") ELSE HttpUrl("h1"))
    ELSE (IF route = "jsonrpc" THEN HttpUrl("h2/jsonrpc") ELSE HttpUrl("h2"))

\* the programs the agents run: the handlers they register, in order
Handler(name) == CHOOSE fn \in HandlerPool : fn.name = name /\ ~fn.is_async
Programs == {<<"add", "noop">>, <<"divide", "reject">>, <<"noop">>}
MethodsOf(prog) == [n \in RangeOf(prog) |-> Handler(n)]
\* the card of an agent running prog: capabilities = list(self._methods.keys())
ServiceCard(n, prog, url) ==
    AgentCard(n, "1.0.0", url, Null, prog, TextV("RPC service"), 0, Dict({}))

\* RPCRequest(method=, params=, id=).dict(exclude_none=True)
RequestDict(method, params, id) ==
    Envelope("2.0", Str(method), params, IF id = Null THEN AbsentId ELSE id)

\* one POST of the client's httpx.AsyncClient
Post(url, envelope) == [url |-> url, envelope |-> envelope]
\* what a POST to an agent ends in: a response with a status and the JSON
\* objects of its body, or an httpx.RequestError
RpcResponse(status, body) == [kind |-> "response", status |-> status, body |-> body]
RpcError(type) == [kind |-> "error", type |-> type, status |-> 0, body |-> <<>>]

\* the agent's app on a POST: 404 for a path without a route, the answer of
\* HTTPTransport.handle on /jsonrpc, 500 when an exception leaves the route
RouteAnswer(o) ==
    IF o.exc # "none" THEN RpcResponse(500, <<>>) ELSE RpcResponse(o.status, o.body)
AgentAnswer(methods, post) ==
    IF ~Routed(post.url) THEN RpcResponse(404, <<>>)
    ELSE RouteAnswer(HTTP_handle(methods, Request("http", "json", FALSE, <<post.envelope>>)))

\* the exchange the client sees: an agent that is down refuses the connection
AgentExchange(net, up, methods, post) ==
    IF net # "ok" THEN RpcError(net)
    ELSE IF ~up THEN RpcError("ConnectError")
    ELSE AgentAnswer(methods, post)

\* JSONRPCTransport.call_method after the POST: raise_for_status, resp.json(),
\* then the error or the result of the response
call_method_data(data) ==
    IF "error" \in data.keys
    THEN Raise(JSONRPCError(data.error.code, data.error.message, data.error.data), 0)
    ELSE IF "result" \in data.keys
    THEN Ret(data.result, 0)
    ELSE Raise(PyExc("KeyError", "'result'"), 0)

call_method_response(resp) ==
    IF resp.kind = "error" THEN Raise(PyExc(resp.type, "network error"), 0)
    ELSE IF resp.status >= 400 THEN Raise(PyExc("HTTPStatusError", "error status"), 0)
    ELSE IF resp.body = <<>> THEN Raise(PyExc("JSONDecodeError", "Expecting value"), 0)
    ELSE call_method_data(resp.body[1])

\* JSONRPCTransport.notify after the POST: the response is not read, a
\* status other than 204 prints a warning
notify_response(resp) ==
    IF resp.kind = "error" THEN Raise(PyExc(resp.type, "network error"), 0)
    ELSE Ret(Null, 0)

\* a choice that always takes one and the same element
choice_fixed(agents) == {CHOOSE a \in agents : TRUE}

\* random.choice(agents): the values it can return for a non-empty list
choice(agents) == agents

\* find_agent falling back to a default agent when nothing was found
find_agent_default(f) ==
    IF ~f.ok THEN f
    ELSE IF f.val = {}
    THEN Ret({ServiceCard("billing", <<>>, HttpUrl("h1/jsonrpc"))}, 0)
    ELSE f

\* RPCClient.find_agent on what DiscoveryClient.find_agents gave: the
\* candidates random.choice draws from, or the failure
find_agent(f) ==
    IF ~f.ok THEN f
    ELSE IF f.val = {}
    THEN Raise(PyExc("RuntimeError", "No agents found for method"), 0)
    ELSE f

\* one invocation of the client: the state of the call, what find_agents
\* gave, the candidates and the agent chosen, the POSTs made to agent
\* endpoints and what the caller got
Invocation(kind, state, method, params, url, found, candidates, agent, posts, result) ==
    [kind |-> kind, state |-> state, method |-> method, params |-> params, url |-> url,
     found |-> found, candidates |-> candidates, agent |-> agent, posts |-> posts,
     result |-> result]
NotAsked == Raise(PyExc("none", "find_agents was not called"), 0)
NoInvocation ==
    Invocation("none", "Idle", "", NoParams, Null, NotAsked, {}, Null, <<>>, Ret(Null, 0))

\* where the response to a call leaves it
CallStateOf(resp) ==
    IF resp.kind = "error" \/ resp.status >= 400 THEN "TransportFailed"
    ELSE IF resp.body # <<>> /\ "error" \in resp.body[1].keys THEN "ErrorReceived"
    ELSE "ResultReceived"

\* RPCClient.call once find_agent has failed; f is what find_agents gave
call_unresolved(c, f) == [c EXCEPT !.state = "Failed", !.found = f, !.result = find_agent(f)]

\* RPCClient.call from the agent chosen to the POST of call_method
call_send(c, f, agent) ==
    [c EXCEPT !.state = "Sent", !.found = f, !.candidates = find_agent(f).val,
              !.agent = agent,
              !.url = agent.endpoint,
              !.posts = Append(@, Post(agent.endpoint,
                                       RequestDict(c.method, c.params, StrV(1))))]

\* call_method trying the next candidate after a transport failure
call_method_retry(c, resp) ==
    IF CallStateOf(resp) = "TransportFailed" /\ c.candidates \ {c.agent} # {}
    THEN call_send(c, Ret(c.candidates \ {c.agent}, 0),
                   CHOOSE a \in c.candidates \ {c.agent} : TRUE)
    ELSE [c EXCEPT !.state = CallStateOf(resp), !.result = call_method_response(resp)]

\* call_method from the response (or the failure) of its POST to its end
call_method_done(c, resp) ==
    [c EXCEPT !.state = CallStateOf(resp), !.result = call_method_response(resp)]

\* notify from the POST to its end
notify_send(c) ==
    [c EXCEPT !.state = "Sent",
              !.posts = Append(@, Post(c.url, RequestDict(c.method, c.params, Null)))]
notify_done(c, resp) ==
    [c EXCEPT !.state = IF resp.kind = "error" THEN "TransportFailed" ELSE "Fired",
              !.result = notify_response(resp)]

\* ----------------------------------------------------------- agent startup
\* a card advertising a list of capabilities written down in the program
KeysOf_declared(methods) == <<"add", "divide">>

\* list(self._methods.keys()): the registered names as a list
KeysOf(methods) ==
    CHOOSE q \in [1..Cardinality(DOMAIN methods) -> DOMAIN methods] :
        RangeOf(q) = DOMAIN methods

\* DiscoveryClient.register_agent on the outcome of its POST: a network
\* error and an error status are logged and raised again
DiscoveryClient_register_agent(exchange) ==
    IF exchange.kind = "error" THEN Raise(PyExc(exchange.type, "network error"), 0)
    ELSE IF exchange.status >= 400 THEN Raise(PyExc("HTTPStatusError", "error status"), 0)
    ELSE Ret(Null, 0)

\* on_startup without the try/except around the registration
on_startup_unguarded(r) == IF r.ok THEN Ret("info", 0) ELSE r

\* on_startup after client.register_agent: r is what the call gave; the
\* value is the level of the line logged
on_startup_registered(r) == IF r.ok THEN Ret("info", 0) ELSE Ret("warning", 0)

on_startup(auto_register, exchange) ==
    IF ~auto_register THEN Ret("debug", 0)
    ELSE on_startup_registered(DiscoveryClient_register_agent(exchange))

\* ------------------------------------------------------- stateful handlers
\* The handlers of the invoice server work on a store shared by all calls:
\* the invoices created (beside one invoice the payments name), whether that
\* invoice is paid, and the payments noted.  create_invoice and get_balance
\* are plain functions; process_payment is a coroutine that notes the payment,
\* suspends (await asyncio.sleep) and then marks the invoice paid.
InvoiceStore(invoices, paid, unprocessed) ==
    [invoices |-> invoices, paid |-> paid, unprocessed |-> unprocessed]
BatchOps == {"create_invoice", "process_payment", "get_balance"}
Suspends(method) == method = "process_payment"

\* a handler from its call to its first suspension point, or to its end
RunToAwait(method, st) ==
    CASE method = "create_invoice" -> [st EXCEPT !.invoices = @ + 1]
      [] method = "process_payment" -> [st EXCEPT !.unprocessed = @ + 1]
      [] method = "get_balance" -> st
\* process_payment after its await
RunAfterAwait(method, st) == [st EXCEPT !.paid = TRUE]

\* what a handler returns, on the store it sees when it returns
ResultOf(method, st) ==
    CASE method = "create_invoice" -> [t |-> "invoice", n |-> st.invoices + 1]
      [] method = "process_payment" ->
             [t |-> "status", n |-> IF st.paid THEN 0 ELSE 1]
      [] method = "get_balance" ->
             [t |-> "balance", n |-> st.invoices + (IF st.paid THEN 0 ELSE 1)]

\* the adapter's work on one batch: the items, the store when the batch
\* arrived and now, the items whose dispatch has started and ended, and the
\* value each dispatch returned
BatchRun(phase, items, store0, store, started, ended, results) ==
    [phase |-> phase, items |-> items, store0 |-> store0, store |-> store,
     started |-> started, ended |-> ended, results |-> results]
NoBatch == BatchRun("idle", <<>>, InvoiceStore(0, FALSE, 0), InvoiceStore(0, FALSE, 0),
                    {}, {}, <<>>)

\* the items started together, as asyncio.gather would start them
NextItems_gather(b) == {i \in DOMAIN b.items : i \notin b.started}

\* [await self._handle_single(item) for item in payload]: the item whose
\* _handle_single is called next; none while an earlier one is awaited
NextItems(b) ==
    {i \in DOMAIN b.items : i \notin b.started /\ b.ended = 1..(i - 1)}

\* the dispatch of item i runs to the handler's end
item_returns(b, i, st) ==
    [b EXCEPT !.store = st,
              !.started = @ \cup {i},
              !.ended = @ \cup {i},
              !.results = [@ EXCEPT ![i] = ResultOf(b.items[i].method, b.store)]]
\* the dispatch of item i is suspended in the handler's await
item_suspends(b, i, st) ==
    [b EXCEPT !.store = st, !.started = @ \cup {i}]

\* the response array: the results of the items that carry an id, in order
RECURSIVE BatchBody(_, _)
BatchBody(items, results) ==
    IF items = <<>> THEN <<>>
    ELSE (IF Head(items).notify THEN <<>> ELSE <<Head(results)>>)
             \o BatchBody(Tail(items), Tail(results))

\* ------------------------------------------------------------------- state
VARIABLES
    _methods,        \* RPCMethodRegistry._methods: name -> handler
    settings,        \* RegistrySettings
    _dispatcher,     \* TRUE once _setup_fastapi_app has created the dispatcher
    pc,              \* "idle", "pending" (a request has arrived), "done"
    request,         \* the request being handled
    outcome,         \* what handling it produced
    db,              \* the rows of the agents table in the file discovery.db
    conn,            \* the rows the directory's connection sees
    running,         \* the names of the agent processes that are up
    inflight,        \* the write requests sent to the directory, not yet handled
    dlast,           \* the last directory operation and what it answered
    acked,           \* per name, the last write the directory acknowledged
    call,            \* the client's invocation: where it stands, what it posted
    startup,         \* what on_startup of the agent did
    registration,    \* the last call of register() and what it did
    batch            \* the batch the adapter is working on and the handlers' store

vars == <<_methods, settings, _dispatcher, pc, request, outcome,
          db, conn, running, inflight, dlast, acked,
          call, startup, registration, batch>>
cvars == <<call>>
avars == <<startup, registration, batch>>
svars == <<_methods, settings, _dispatcher, pc, request, outcome>>
dvars == <<db, conn, running, inflight, dlast, acked>>

\* a write request on its way to the directory
WriteReq(op, name, card) == [op |-> op, name |-> name, card |-> card]
\* the record of one directory operation: the request, the storage fault
\* injected, the HTTP exchange the client saw, what was acknowledged for the
\* name before, and what find_agents made of the exchange
LastOp(op, name, card, method, fault, exchange, prior, found) ==
    [op |-> op, name |-> name, card |-> card, method |-> method, fault |-> fault,
     exchange |-> exchange, prior |-> prior, found |-> found]
NoOp == LastOp("none", "", Null, "", FALSE, Response(0, {}), Null, Ret({}, 0))
Removed == [t |-> "removed"]

DefaultSettings == [warn_on_duplicate |-> TRUE, strict_mode |-> FALSE, auto_register |-> TRUE]
\* the settings a program can construct its registry with
SettingsPool ==
    [warn_on_duplicate : BOOLEAN, strict_mode : BOOLEAN, auto_register : BOOLEAN]

\* the record of one register() call: the function, the registry before it
\* and what the decorator did (returned fn or raised)
RegistrationRec(fn, before, result) == [fn |-> fn, before |-> before, result |-> result]
NoRegistration == RegistrationRec(Null, <<>>, Ret(Null, 0))

\* the record of on_startup: whether it ran, how it ended, what it logged,
\* the card it built and the exchange with the directory
StartupRec(done, result, card, exchange) ==
    [done |-> done, result |-> result, card |-> card, exchange |-> exchange]
NoStartup == StartupRec(FALSE, Ret(Null, 0), Null, Response(0, {}))

\* the state after RPCMethodRegistry(settings=s), with the directory empty
\* and no client invocation
InitWith(s) ==
    /\ _methods = <<>>
    /\ settings = s
    /\ _dispatcher = FALSE
    /\ pc = "idle"
    /\ request = NoRequest
    /\ outcome = NoOutcome
    /\ db = {}
    /\ conn = {}
    /\ running = {}
    /\ inflight = {}
    /\ dlast = NoOp
    /\ acked = [n \in AgentNames |-> Null]
    /\ call = NoInvocation
    /\ startup = NoStartup
    /\ registration = NoRegistration
    /\ batch = NoBatch

Init == InitWith(DefaultSettings)

\* what the decorator of register() does with fn: it raises ValueError for
\* a name already registered when warn_on_duplicate is off, else returns fn
register(methods, s, fn) ==
    IF fn.name \in DOMAIN methods /\ ~s.warn_on_duplicate
    THEN Raise(PyExc("ValueError", "Method already registered"), 0)
    ELSE Ret(fn, 0)

\* a registry that keeps the first handler of a name
registered_first_wins(methods, s, fn) ==
    IF fn.name \in DOMAIN methods
    THEN methods
    ELSE [n \in DOMAIN methods \cup {fn.name} |->
             IF n = fn.name THEN fn ELSE methods[n]]

\* the registry register() leaves behind
\* RPCMethodRegistry.register(...)(fn) under the function's own name
registered(methods, s, fn) ==
    IF fn.name \in DOMAIN methods /\ ~s.warn_on_duplicate
    THEN methods
    ELSE [n \in DOMAIN methods \cup {fn.name} |->
             IF n = fn.name THEN fn ELSE methods[n]]

Register(fn) ==
    /\ pc = "idle"
    /\ Cardinality(DOMAIN _methods \cup {fn.name}) <= MaxMethods
    /\ _methods' = registered(_methods, settings, fn)
    /\ UNCHANGED <<settings, _dispatcher, pc, request, outcome>>
    /\ UNCHANGED <<dvars, cvars, avars>>

\* RPCMethodRegistry._setup_fastapi_app (run by the HTTP runner)
SetupApp ==
    /\ pc = "idle"
    /\ ~_dispatcher
    /\ _dispatcher' = TRUE
    /\ UNCHANGED <<_methods, settings, pc, request, outcome>>
    /\ UNCHANGED <<dvars, cvars, avars>>

\* a request reaches the HTTP endpoint, the STDIO loop or the dispatcher
Receive(req) ==
    /\ pc = "idle"
    /\ req.via \in {"http", "dispatch"} => _dispatcher
    /\ request' = req
    /\ pc' = "pending"
    /\ outcome' = NoOutcome
    /\ UNCHANGED <<_methods, settings, _dispatcher>>
    /\ UNCHANGED <<dvars, cvars, avars>>

HTTPHandle ==
    /\ pc = "pending" /\ request.via = "http"
    /\ outcome' = HTTP_handle(_methods, request)
    /\ pc' = "done"
    /\ UNCHANGED <<_methods, settings, _dispatcher, request>>
    /\ UNCHANGED <<dvars, cvars, avars>>

StdioHandle ==
    /\ pc = "pending" /\ request.via = "stdio"
    /\ outcome' = REG_handle_payload(_dispatcher, _methods, request)
    /\ pc' = "done"
    /\ UNCHANGED <<_methods, settings, _dispatcher, request>>
    /\ UNCHANGED <<dvars, cvars, avars>>

Dispatch ==
    /\ pc = "pending" /\ request.via = "dispatch"
    /\ outcome' = Direct(_methods, request)
    /\ pc' = "done"
    /\ UNCHANGED <<_methods, settings, _dispatcher, request>>
    /\ UNCHANGED <<dvars, cvars, avars>>

\* the sender has read the outcome; the server waits for the next request
Finish ==
    /\ pc = "done"
    /\ pc' = "idle"
    /\ request' = NoRequest
    /\ outcome' = NoOutcome
    /\ UNCHANGED <<_methods, settings, _dispatcher>>
    /\ UNCHANGED <<dvars, cvars, avars>>

Next ==
    \/ pc = "idle" /\ \E fn \in HandlerPool : Register(fn)
    \/ SetupApp
    \/ pc = "idle" /\ \E req \in Requests : Receive(req)
    \/ HTTPHandle
    \/ StdioHandle
    \/ Dispatch
    \/ Finish

Spec == Init /\ [][Next]_vars

\* --------------------------------------------------- directory operations
WriteRequests ==
    {WriteReq("register", card.name, card) : card \in CardPool}
        \cup {WriteReq("deregister", n, Null) : n \in AgentNames}

\* an agent process stopping without telling the directory and the card
\* of its name expiring with it
AgentStop_expire(n) ==
    /\ n \in running
    /\ running' = running \ {n}
    /\ conn' = Delete(conn, n)
    /\ db' = Delete(db, n)
    /\ UNCHANGED <<inflight, dlast, acked>>
    /\ UNCHANGED <<svars, cvars, avars>>

\* an agent process stops or crashes: the framework installs a startup
\* handler only, nothing is sent to the directory
AgentStop(n) ==
    /\ n \in running
    /\ running' = running \ {n}
    /\ UNCHANGED <<db, conn, inflight, dlast, acked>>
    /\ UNCHANGED <<svars, cvars, avars>>

\* an agent process starts: on_startup posts its card to /register
AgentStart(card) ==
    /\ card.name \notin running
    /\ Cardinality(inflight) < MaxPending
    /\ running' = running \cup {card.name}
    /\ inflight' = inflight \cup {WriteReq("register", card.name, card)}
    /\ UNCHANGED <<db, conn, dlast, acked>>
    /\ UNCHANGED <<svars, cvars, avars>>

\* a client sends DELETE /deregister/{agent_name}
RequestDeregister(n) ==
    /\ Cardinality(inflight) < MaxPending
    /\ inflight' = inflight \cup {WriteReq("deregister", n, Null)}
    /\ UNCHANGED <<db, conn, running, dlast, acked>>
    /\ UNCHANGED <<svars, cvars, avars>>

\* what the directory acknowledged for the name of a handled write
Acknowledged(req, res) ==
    IF res.status = 201 THEN [acked EXCEPT ![req.name] = req.card]
    ELSE IF res.status = 204 THEN [acked EXCEPT ![req.name] = Removed]
    ELSE acked

\* the directory runs the endpoint of one write request to its end: the
\* endpoints are coroutines without an await, one runs at a time
DirApply(req, fault, res) ==
    /\ conn' = res.conn
    /\ db' = res.db
    /\ inflight' = inflight \ {req}
    /\ acked' = Acknowledged(req, res)
    /\ dlast' = LastOp(req.op, req.name, req.card, "", fault,
                       Response(res.status, res.cards), acked[req.name], Ret({}, 0))
    /\ UNCHANGED running
    /\ UNCHANGED <<svars, cvars, avars>>

HandleRegister(req, fault) ==
    /\ req \in inflight
    /\ req.op = "register"
    /\ DirApply(req, fault, register_agent(conn, db, req.card, fault))

HandleDeregister(req, fault) ==
    /\ req \in inflight
    /\ req.op = "deregister"
    /\ DirApply(req, fault, deregister_agent(conn, db, req.name, fault))

\* the exchange a client sees: the directory's answer, or a network error
ExchangeOf(net, res) ==
    IF net = "ok" THEN Response(res.status, res.cards) ELSE RequestError(net)

Found(method, fault, exchange) ==
    /\ dlast' = LastOp("discover", "", Null, method, fault, exchange, Null,
                       find_agents(exchange))
    /\ UNCHANGED <<db, conn, running, inflight, acked>>
    /\ UNCHANGED <<svars, cvars, avars>>

\* DiscoveryClient.find_agents(method) against the directory
FindAgents(method, net, fault) ==
    Found(method, fault, ExchangeOf(net, discover_agent(conn, db, method, fault)))

Listed(fault, res) ==
    /\ dlast' = LastOp("list", "", Null, "", fault, Response(res.status, res.cards),
                       Null, Ret({}, 0))
    /\ UNCHANGED <<db, conn, running, inflight, acked>>
    /\ UNCHANGED <<svars, cvars, avars>>

\* GET /agents
ListAgents(fault) == Listed(fault, list_agents(conn, db, fault))

\* the directory process restarts: the module connects to discovery.db
\* again and the new connection sees what the file holds
DirRestart ==
    /\ conn' = db
    /\ dlast' = LastOp("restart", "", Null, "", FALSE, Response(0, {}), Null, Ret({}, 0))
    /\ UNCHANGED <<db, running, inflight, acked>>
    /\ UNCHANGED <<svars, cvars, avars>>

DirNext ==
    \/ \E card \in CardPool : AgentStart(card)
    \/ \E n \in AgentNames : AgentStop(n)
    \/ \E n \in AgentNames : RequestDeregister(n)
    \/ \E req \in inflight, fault \in BOOLEAN : HandleRegister(req, fault)
    \/ \E req \in inflight, fault \in BOOLEAN : HandleDeregister(req, fault)
    \/ \E method \in Capabilities, net \in NetOutcomes, fault \in BOOLEAN :
           (fault => net = "ok") /\ FindAgents(method, net, fault)
    \/ \E fault \in BOOLEAN : ListAgents(fault)
    \/ DirRestart

DirectorySpec == Init /\ [][DirNext]_vars

\* ------------------------------------------------------ client invocations
\* A client process against a directory that holds the cards of agents all
\* running one program; a card carries the bare URL of its agent or the URL
\* of its /jsonrpc route, and an agent may be down with its card still stored.
ClientMethods == {"add", "divide", "noop", "reject", "nosuch"}
ClientParams ==
    {NoParams, ListParams(<<IntV(1), IntV(0)>>), DictParams([a |-> IntV(0), b |-> IntV(1)])}
Routes == {"absent", "root", "jsonrpc"}
CardsOf(prog, reg) ==
    {ServiceCard(n, prog, UrlOf(n, reg[n])) : n \in {m \in AgentNames : reg[m] # "absent"}}

ClientInit ==
    /\ settings = DefaultSettings
    /\ _dispatcher = TRUE
    /\ pc = "idle"
    /\ request = NoRequest
    /\ outcome = NoOutcome
    /\ \E prog \in Programs, reg \in [AgentNames -> Routes] :
           /\ _methods = MethodsOf(prog)
           /\ conn = {RowOf(card) : card \in CardsOf(prog, reg)}
           /\ db = {RowOf(card) : card \in CardsOf(prog, reg)}
           /\ acked = [n \in AgentNames |->
                          IF reg[n] = "absent" THEN Null
                          ELSE ServiceCard(n, prog, UrlOf(n, reg[n]))]
    /\ running \in SUBSET AgentNames
    /\ inflight = {}
    /\ dlast = NoOp
    /\ call = NoInvocation
    /\ startup = NoStartup
    /\ registration = NoRegistration
    /\ batch = NoBatch

\* await client.call(method, params)
ClientCall(method, params) ==
    /\ call.state = "Idle"
    /\ call' = Invocation("call", "Created", method, params, Null, NotAsked, {}, Null, <<>>,
                        Ret(Null, 0))
    /\ UNCHANGED <<svars, dvars, avars>>

\* await JSONRPCTransport(url).notify(method, params)
ClientNotify(url, method, params) ==
    /\ call.state = "Idle"
    /\ call' = Invocation("notify", "Created", method, params, url, NotAsked, {}, Null, <<>>,
                        Ret(Null, 0))
    /\ UNCHANGED <<svars, dvars, avars>>

\* what DiscoveryClient.find_agents gives for the call's method
Discovery(net, fault) ==
    find_agents(ExchangeOf(net, discover_agent(conn, db, call.method, fault)))

\* RPCClient.call: find_agent raises, no transport is created
FindAgentFails(net, fault) ==
    /\ call.kind = "call" /\ call.state = "Created"
    /\ ~find_agent(Discovery(net, fault)).ok
    /\ call' = call_unresolved(call, Discovery(net, fault))
    /\ UNCHANGED <<svars, dvars, avars>>

\* RPCClient.call: random.choice picks one of the candidates and call_method
\* posts the envelope to its endpoint
FindAgentSends(net, fault) ==
    /\ call.kind = "call" /\ call.state = "Created"
    /\ find_agent(Discovery(net, fault)).ok
    /\ \E agent \in choice(find_agent(Discovery(net, fault)).val) :
           call' = call_send(call, Discovery(net, fault), agent)
    /\ UNCHANGED <<svars, dvars, avars>>

NotifySend ==
    /\ call.kind = "notify" /\ call.state = "Created"
    /\ call' = notify_send(call)
    /\ UNCHANGED <<svars, dvars, avars>>

\* the exchange of the invocation's last POST
LastExchange(net) ==
    AgentExchange(net, ListensAt(call.url) \in running, _methods, call.posts[Len(call.posts)])

\* the POST of call_method ends in a response or a refused connection
CallAnswer(net) ==
    /\ call.kind = "call" /\ call.state = "Sent"
    /\ call' = call_method_done(call, LastExchange(net))
    /\ UNCHANGED <<svars, dvars, avars>>

\* a transport built without a timeout: the POST waits for the agent
CallTimeout_off ==
    /\ call.kind = "call" /\ call.state = "Sent"
    /\ FALSE
    /\ UNCHANGED vars

\* the POST of call_method has had no answer for the 10 seconds of the
\* transport's timeout: httpx raises ReadTimeout
CallTimeout ==
    /\ call.kind = "call" /\ call.state = "Sent"
    /\ call' = call_method_done(call, RpcError("ReadTimeout"))
    /\ UNCHANGED <<svars, dvars, avars>>

NotifyAnswer(net) ==
    /\ call.kind = "notify" /\ call.state = "Sent"
    /\ call' = notify_done(call, LastExchange(net))
    /\ UNCHANGED <<svars, dvars, avars>>

ClientNext ==
    \/ \E method \in ClientMethods, params \in ClientParams : ClientCall(method, params)
    \/ \E url \in EndpointPool, method \in ClientMethods, params \in ClientParams :
           ClientNotify(url, method, params)
    \/ \E net \in NetOutcomes, fault \in BOOLEAN :
           (fault => net = "ok") /\ FindAgentFails(net, fault)
    \/ \E net \in NetOutcomes, fault \in BOOLEAN :
           (fault => net = "ok") /\ FindAgentSends(net, fault)
    \/ NotifySend
    \/ \E net \in {"ok", "ConnectError"} : CallAnswer(net)
    \/ CallTimeout
    \/ \E net \in NetOutcomes : NotifyAnswer(net)

ClientSpec == ClientInit /\ [][ClientNext]_vars

\* the transport is built with timeout=10.0: a POST that stays unanswered
\* is ended by the timeout
ClientFairness == WF_vars(CallTimeout)

ClientLiveSpec == ClientInit /\ [][ClientNext]_vars /\ ClientFairness

\* ------------------------------------------------------------ agent startup
\* One agent process ("billing"): the program registers its handlers, the
\* HTTP runner builds the app, uvicorn runs on_startup and then serves.
StartupRequests ==
    { Request("http", "json", FALSE,
              <<Envelope("2.0", Str("add"), ListParams(<<IntV(0), IntV(1)>>), StrV(1))>>),
      Request("http", "json", FALSE,
              <<Envelope("2.0", Str("divide"), ListParams(<<IntV(1), IntV(0)>>), IntV(0))>>),
      Request("http", "json", FALSE, <<Envelope("2.0", Str("noop"), NoParams, AbsentId)>>),
      Request("http", "garbage", FALSE, <<>>) }

StartupInit ==
    \E s \in {q \in SettingsPool : q.warn_on_duplicate /\ ~q.strict_mode} : InitWith(s)

\* the card on_startup builds for the registry
OwnCard == ServiceCard("billing", KeysOf(_methods), HttpUrl("h1"))

\* on_startup with auto_register off: nothing is sent
StartupSkipped ==
    /\ startup' = StartupRec(TRUE, on_startup(FALSE, Response(0, {})), Null, Response(0, {}))
    /\ running' = running \cup {"billing"}
    /\ UNCHANGED <<db, conn, acked>>

\* on_startup posting the card: res is what the directory made of it when
\* the request reached it
StartupPosted(card, net, res) ==
    /\ startup' = StartupRec(TRUE, on_startup(TRUE, ExchangeOf(net, res)), card,
                             ExchangeOf(net, res))
    /\ running' = IF on_startup(TRUE, ExchangeOf(net, res)).ok
                  THEN running \cup {"billing"} ELSE running
    /\ conn' = IF net = "ok" THEN res.conn ELSE conn
    /\ db' = IF net = "ok" THEN res.db ELSE db
    /\ acked' = IF net = "ok" /\ res.status = 201
                THEN [acked EXCEPT !["billing"] = card] ELSE acked

\* uvicorn runs the startup handler of the app
OnStartup(net, fault) ==
    /\ pc = "idle"
    /\ _dispatcher
    /\ ~startup.done
    /\ IF settings.auto_register
       THEN StartupPosted(OwnCard, net, register_agent(conn, db, OwnCard, fault))
       ELSE StartupSkipped
    /\ UNCHANGED <<inflight, dlast>>
    /\ UNCHANGED <<svars, cvars, registration, batch>>

\* the server accepts requests once the startup handler has returned
Serve(req) ==
    /\ startup.done
    /\ startup.result.ok
    /\ Receive(req)

StartupNext ==
    \/ pc = "idle" /\ \E fn \in HandlerPool : Register(fn)
    \/ SetupApp
    \/ \E net \in NetOutcomes, fault \in BOOLEAN : (fault => net = "ok") /\ OnStartup(net, fault)
    \/ pc = "idle" /\ \E req \in StartupRequests : Serve(req)
    \/ HTTPHandle
    \/ Finish

StartupSpec == StartupInit /\ [][StartupNext]_vars

\* ------------------------------------------------------------ registration
\* A program constructs its registry with some settings and decorates its
\* functions with register().
RegistryInit == \E s \in SettingsPool : InitWith(s)

Registration(fn) ==
    /\ pc = "idle"
    /\ Cardinality(DOMAIN _methods \cup {fn.name}) <= MaxMethods
    /\ _methods' = registered(_methods, settings, fn)
    /\ registration' = RegistrationRec(fn, _methods, register(_methods, settings, fn))
    /\ UNCHANGED <<settings, _dispatcher, pc, request, outcome>>
    /\ UNCHANGED <<dvars, cvars, startup, batch>>

RegistryNext == \E fn \in HandlerPool : Registration(fn)

RegistrySpec == RegistryInit /\ [][RegistryNext]_vars

\* ---------------------------------------------------------- batch processing
\* The invoice server handling batches over HTTP.  Its registry is fixed by
\* the program (the handlers above); the store outlives the batches.
MaxStore == MaxBatch + MaxNum
BatchCalls == [method : BatchOps, notify : BOOLEAN]
InvoiceBatches == UNION {[1..k -> BatchCalls] : k \in 0..MaxBatch}

BatchInit ==
    /\ _methods = <<>>
    /\ settings = DefaultSettings
    /\ _dispatcher = TRUE
    /\ pc = "idle"
    /\ request = NoRequest
    /\ outcome = NoOutcome
    /\ db = {}
    /\ conn = {}
    /\ running = {}
    /\ inflight = {}
    /\ dlast = NoOp
    /\ acked = [n \in AgentNames |-> Null]
    /\ call = NoInvocation
    /\ startup = NoStartup
    /\ registration = NoRegistration
    /\ \E n \in 0..MaxNum, paid \in BOOLEAN :
           batch = BatchRun("idle", <<>>, InvoiceStore(n, paid, 0), InvoiceStore(n, paid, 0),
                            {}, {}, <<>>)

\* HTTPTransport.handle has decoded a JSON array
BatchArrive(items) ==
    /\ batch.phase = "idle"
    /\ batch.store.invoices + Len(items) <= MaxStore
    /\ batch.store.unprocessed + Len(items) <= MaxStore
    /\ batch' = BatchRun("running", items, batch.store, batch.store, {}, {},
                         [i \in DOMAIN items |-> Null])
    /\ UNCHANGED <<svars, dvars, cvars, startup, registration>>

\* _handle_single of the next item is called and runs until the handler
\* returns or suspends
ItemBegin(i) ==
    /\ batch.phase = "running"
    /\ i \in NextItems(batch)
    /\ batch' = IF Suspends(batch.items[i].method)
                THEN item_suspends(batch, i, RunToAwait(batch.items[i].method, batch.store))
                ELSE item_returns(batch, i, RunToAwait(batch.items[i].method, batch.store))
    /\ UNCHANGED <<svars, dvars, cvars, startup, registration>>

\* the event loop resumes a suspended handler, which runs to its end
ItemResume(i) ==
    /\ batch.phase = "running"
    /\ i \in batch.started \ batch.ended
    /\ batch' = item_returns(batch, i, RunAfterAwait(batch.items[i].method, batch.store))
    /\ UNCHANGED <<svars, dvars, cvars, startup, registration>>

\* every _handle_single has returned: the response is built
BatchRespond ==
    /\ batch.phase = "running"
    /\ batch.ended = DOMAIN batch.items
    /\ batch' = [batch EXCEPT !.phase = "done"]
    /\ UNCHANGED <<svars, dvars, cvars, startup, registration>>

\* the adapter waits for the next batch
BatchFinish ==
    /\ batch.phase = "done"
    /\ batch' = BatchRun("idle", <<>>, batch.store, batch.store, {}, {}, <<>>)
    /\ UNCHANGED <<svars, dvars, cvars, startup, registration>>

BatchNext ==
    \/ \E items \in InvoiceBatches : BatchArrive(items)
    \/ \E i \in 1..(MaxBatch + 1) : ItemBegin(i)
    \/ \E i \in 1..(MaxBatch + 1) : ItemResume(i)
    \/ BatchRespond
    \/ BatchFinish

BatchSpec == BatchInit /\ [][BatchNext]_vars

\* ===================================================================
\* Properties
\* ===================================================================
\* what the envelope grammar of schemas.py calls a request, a call and a
\* notification
WellFormed(it) ==
    /\ it.kind = "object"
    /\ it.jsonrpc = "2.0"
    /\ it.method.p = "str"
    /\ it.params.shape \in {"none", "list", "dict"}
    /\ it.id.t \in {"absent", "null", "int", "str"}
IsCall(it) == WellFormed(it) /\ it.id.t \in {"int", "str"}
IsNotification(it) == WellFormed(it) /\ it.id.t \in {"absent", "null"}

\* the arguments a params value gives a handler, by shape
Binds(fn, p) ==
    CASE p.shape = "none" -> Len(fn.params) = 0
      [] p.shape = "list" -> Len(p.items) = Len(fn.params)
      [] p.shape = "dict" -> DOMAIN p.map = RangeOf(fn.params)
      [] OTHER -> FALSE
ArgSeq(fn, p) ==
    CASE p.shape = "list" -> p.items
      [] p.shape = "dict" -> [i \in 1..Len(fn.params) |-> p.map[fn.params[i]]]
      [] OTHER -> <<>>
\* the handler as a function of its positional arguments
HandlerValue(fn, s) ==
    CASE fn.body = "add" -> PyAdd(s[1], s[2])
      [] fn.body = "divide" -> PyDiv(s[1], s[2])
      [] fn.body = "balance" -> Ret(IntV(0), 1)
      [] fn.body = "none" -> Ret(Null, 1)
      [] fn.body = "reject" -> Raise(INVALID_PARAMS(Reason(Text("rejected by handler"))), 1)

\* the items of the handled request that reached the dispatcher
Dispatched ==
    {i \in DOMAIN outcome.log :
        /\ outcome.log[i].kind \in {"call", "notification", "direct"}
        /\ request.via = "stdio" => _dispatcher}
ItemAt(i) == request.items[i]
EntryAt(i) == outcome.log[i]
Registered(i) == ItemAt(i).method.name \in DOMAIN _methods
HandlerAt(i) == _methods[ItemAt(i).method.name]
ServerErrorCodes == (-32099)..(-32000)

\* C1: dispatch of a method name that is not in the registry fails with
\* MethodNotFound, code -32601, whatever the params and the id
C1_UnregisteredIsMethodNotFound ==
    pc = "done" =>
        \A i \in Dispatched :
            ~Registered(i) =>
                /\ ~EntryAt(i).out.ok
                /\ EntryAt(i).out.exc.type = "JSONRPCError"
                /\ EntryAt(i).out.exc.code = -32601

\* C2: for a registered handler whose invocation succeeds, dispatch binds
\* the params by shape (absent: no arguments, list: positionally in order,
\* mapping: by parameter name) and returns the handler's value as result
C2_ResultIsHandlerValue ==
    pc = "done" =>
        \A i \in Dispatched :
            (Registered(i) /\ Binds(HandlerAt(i), ItemAt(i).params)) =>
                LET v == HandlerValue(HandlerAt(i), ArgSeq(HandlerAt(i), ItemAt(i).params))
                IN  v.ok =>
                        /\ EntryAt(i).out.ok
                        /\ EntryAt(i).out.val.result = v.val
                        /\ EntryAt(i).out.calls = 1
                        /\ (EntryAt(i).kind = "call" /\ v.val # Null) =>
                               /\ EntryAt(i).has
                               /\ "result" \in EntryAt(i).resp.keys
                               /\ EntryAt(i).resp.result = v.val

C2_Witness ==
    /\ pc = "done" /\ request.via = "http" /\ ~request.array
    /\ request.items = <<Envelope("2.0", Str("divide"),
                                  ListParams(<<IntV(0), IntV(1)>>), IntV(0))>>
    /\ outcome.status = 200
    /\ outcome.body[1].result = FloatV(0, 1)

\* does the text of the original failure occur in the error's data
RECURSIVE Mentions(_, _)
Mentions(d, text) ==
    \/ "text" \in DOMAIN d /\ d.text = text
    \/ "str" \in DOMAIN d /\ Mentions(d.str, text)
    \/ "data" \in DOMAIN d /\ Mentions(d.data, text)

\* the item's handler ran and raised an exception that is no protocol error
HandlerFault(i) ==
    /\ Registered(i) /\ Binds(HandlerAt(i), ItemAt(i).params)
    /\ LET v == HandlerValue(HandlerAt(i), ArgSeq(HandlerAt(i), ItemAt(i).params))
       IN  ~v.ok /\ v.exc.type # "JSONRPCError"
FaultText(i) ==
    HandlerValue(HandlerAt(i), ArgSeq(HandlerAt(i), ItemAt(i).params)).exc.text

\* C3: a handler exception that is no protocol error becomes a ServerError
\* with a code in -32099..-32000 whose data contains the original message;
\* it never escapes the adapter, and a call gets exactly one error response
C3_HandlerFaultIsServerError ==
    pc = "done" =>
        \A i \in Dispatched :
            HandlerFault(i) =>
                /\ ~EntryAt(i).out.ok
                /\ EntryAt(i).out.exc.type = "JSONRPCError"
                /\ EntryAt(i).out.exc.code \in ServerErrorCodes
                /\ Mentions(EntryAt(i).out.exc.data, FaultText(i))
                /\ EntryAt(i).kind \in {"call", "notification"} => EntryAt(i).exc = "none"
                /\ EntryAt(i).kind = "call" =>
                       /\ EntryAt(i).has
                       /\ EntryAt(i).resp.keys = {"jsonrpc", "error", "id"}
                       /\ EntryAt(i).resp.error.code \in ServerErrorCodes
                       /\ Mentions(EntryAt(i).resp.error.data, FaultText(i))
                       /\ ~request.array =>
                              outcome.exc = "none" /\ Len(outcome.body) = 1

C3_Witness ==
    /\ pc = "done" /\ request.via = "http" /\ ~request.array
    /\ request.items = <<Envelope("2.0", Str("divide"),
                                  DictParams([a |-> IntV(1), b |-> IntV(0)]), IntV(0))>>
    /\ outcome.status = 200
    /\ Len(outcome.body) = 1
    /\ outcome.body[1].error.code = -32000
    /\ outcome.body[1].error.data = [kind |-> "exception", str |-> Text("division by zero")]

\* the item's handler ran and raised a protocol error of its own
ProtocolFault(i) ==
    /\ Registered(i) /\ Binds(HandlerAt(i), ItemAt(i).params)
    /\ LET v == HandlerValue(HandlerAt(i), ArgSeq(HandlerAt(i), ItemAt(i).params))
       IN  ~v.ok /\ v.exc.type = "JSONRPCError"

\* C4: an error raised during dispatch that already is a protocol error
\* leaves dispatch unchanged: same code, message and data, not wrapped into
\* a ServerError
C4_ProtocolErrorPassesThrough ==
    pc = "done" =>
        \A i \in Dispatched :
            ProtocolFault(i) =>
                /\ ~EntryAt(i).out.ok
                /\ EntryAt(i).out.exc =
                       HandlerValue(HandlerAt(i), ArgSeq(HandlerAt(i), ItemAt(i).params)).exc

\* C5: params that cannot be bound to the handler's signature (a list of
\* the wrong length, a mapping with an unknown or a missing key) make
\* dispatch report InvalidParams, code -32602
C5_UnboundParamsAreInvalidParams ==
    pc = "done" =>
        \A i \in Dispatched :
            (/\ Registered(i)
             /\ ItemAt(i).params.shape \in {"list", "dict"}
             /\ ~Binds(HandlerAt(i), ItemAt(i).params)) =>
                /\ ~EntryAt(i).out.ok
                /\ EntryAt(i).out.exc.type = "JSONRPCError"
                /\ EntryAt(i).out.exc.code = -32602

\* C6: every response envelope emitted for a call has exactly one of result
\* and error, also when the handler returns None
C6_ExactlyOneOfResultAndError ==
    pc = "done" =>
        \A j \in DOMAIN outcome.body :
            ("result" \in outcome.body[j].keys) # ("error" \in outcome.body[j].keys)

\* the ids of the calls among the items, in order
RECURSIVE CallIds(_)
CallIds(items) ==
    IF items = <<>> THEN <<>>
    ELSE (IF IsCall(Head(items)) THEN <<Head(items).id>> ELSE <<>>) \o CallIds(Tail(items))
BodyIds == [j \in DOMAIN outcome.body |-> outcome.body[j].id]

C8_NotificationNeverAnswered ==
    (pc = "done" /\ request.via \in {"http", "stdio"}) =>
        /\ \A i \in DOMAIN outcome.log :
               IsNotification(ItemAt(i)) =>
                   /\ EntryAt(i).kind = "notification"
                   /\ ~EntryAt(i).has
                   /\ EntryAt(i).exc = "none"
                   /\ (i \in Dispatched /\ Registered(i)
                          /\ Binds(HandlerAt(i), ItemAt(i).params)) =>
                          EntryAt(i).out.calls = 1
        /\ (request.raw = "json" /\ ~request.array /\ IsNotification(request.items[1])) =>
               /\ outcome.body = <<>>
               /\ outcome.exc = "none"
               /\ Len(outcome.log) = 1
               /\ request.via = "http" => outcome.status = 204

C8_Witness ==
    /\ pc = "done" /\ request.via = "http" /\ ~request.array
    /\ request.items = <<Envelope("2.0", Str("divide"),
                                  DictParams([a |-> IntV(1), b |-> IntV(0)]), AbsentId)>>
    /\ "divide" \in DOMAIN _methods
    /\ outcome.status = 204
    /\ outcome.log[1].out.calls = 1
    /\ ~outcome.log[1].out.ok

CarriesId(it) == it.kind = "object" /\ it.id.t \notin {"absent", "null"}

\* C9: for every envelope the HTTP adapter receives, malformed ones
\* included, a response is produced if and only if the envelope has an id
C9_ResponseIffId ==
    (pc = "done" /\ request.via = "http"
        /\ request.raw = "json" /\ ~request.array) =>
        (Len(outcome.body) = 1 <=> CarriesId(request.items[1]))

NotificationLike(it) == it.kind = "object" /\ it.id.t \in {"absent", "null"}

\* C10: a batch of N items, some of them malformed, is answered by an array
\* of N minus the number of notifications entries, in the order of the
\* request, a malformed item that is no notification (an item that is no
\* object included) being answered by an error entry; the batch is not
\* aborted
C10_BatchAnswersEveryItem ==
    (pc = "done" /\ request.via = "http" /\ request.raw = "json" /\ request.array) =>
        /\ outcome.exc = "none"
        /\ Len(outcome.body) = Len(request.items)
               - Cardinality({i \in DOMAIN request.items : NotificationLike(request.items[i])})
        /\ \A i \in DOMAIN request.items :
               (~WellFormed(request.items[i]) /\ ~NotificationLike(request.items[i])) =>
                   /\ i \in DOMAIN outcome.log
                   /\ outcome.log[i].has
                   /\ "error" \in outcome.log[i].resp.keys

\* C11: a batch whose items are all notifications produces no response body
\* at all (204 No Content over HTTP, nothing printed on STDIO, never an
\* empty array), also when some of the notifications fail
C11_NotificationBatchHasNoBody ==
    (pc = "done" /\ request.via \in {"http", "stdio"} /\ request.array
        /\ \A i \in DOMAIN request.items : IsNotification(request.items[i])) =>
        /\ outcome.exc = "none"
        /\ outcome.body = <<>>
        /\ ~outcome.array
        /\ Len(outcome.log) = Len(request.items)
        /\ request.via = "http" => outcome.status = 204

C11_Witness ==
    /\ pc = "done" /\ request.via = "http" /\ request.array
    /\ Len(request.items) = 2
    /\ \A i \in DOMAIN request.items : IsNotification(request.items[i])
    /\ \E i \in DOMAIN outcome.log :
           outcome.log[i].out.calls = 1 /\ ~outcome.log[i].out.ok
    /\ outcome.status = 204
    /\ outcome.body = <<>>

\* ------------------------------------------------ directory properties
\* the cards the directory has acknowledged and not removed since
AckedNames == {n \in AgentNames : acked[n] \in CardPool}
AckedCards == {acked[n] : n \in AckedNames}
Lists(card, method) == method \in RangeOf(card.capabilities)

\* C12: the directory holds at most one card per name, the card of the last
\* successful registration of that name: a registration overwrites the
\* whole record, discover returns exactly one card for the agent, the
\* latest, and a capability only the older card listed matches no longer
C12_OneCardPerNameLastWriteWins ==
    /\ \A r1, r2 \in conn : r1.name = r2.name => r1 = r2
    /\ list_agents(conn, db, FALSE).cards = AckedCards
    /\ \A n \in AgentNames, q \in Capabilities :
           {c \in discover_agent(conn, db, q, FALSE).cards : c.name = n} =
               (IF n \in AckedNames /\ Lists(acked[n], q) THEN {acked[n]} ELSE {})

C12_Witness ==
    /\ dlast.op = "register" /\ dlast.exchange.status = 201
    /\ dlast.prior \in CardPool
    /\ dlast.prior.endpoint # dlast.card.endpoint
    /\ Lists(dlast.prior, "pay") /\ ~Lists(dlast.card, "pay")
    /\ {r \in conn : r.name = dlast.name} = {RowOf(dlast.card)}
    /\ discover_agent(conn, db, "Pay", FALSE).cards = {dlast.card}

\* the last operation was a discover the directory answered with this status
Discovered(status) ==
    /\ dlast.op = "discover"
    /\ dlast.exchange.kind = "response"
    /\ dlast.exchange.status = status

\* C13: a non-empty discover result is exactly the set of the stored cards
\* whose capabilities hold the capability as an element, compared exactly
\* and case-sensitively: every such card and no other
C13_DiscoverIsExactMatch ==
    /\ \A q \in Capabilities :
           discover_agent(conn, db, q, FALSE).status = 200 =>
               discover_agent(conn, db, q, FALSE).cards = {c \in AckedCards : Lists(c, q)}
    /\ Discovered(200) =>
           /\ dlast.exchange.cards # {}
           /\ dlast.exchange.cards = {c \in AckedCards : Lists(c, dlast.method)}

C13_Witness ==
    /\ Discovered(200) /\ dlast.method = "pay"
    /\ dlast.exchange.cards = {StartupCard("support")}
    /\ "billing" \in AckedNames
    /\ \E cap \in RangeOf(acked["billing"].capabilities) : cap \in {"Pay", "payments"}

\* C14: discover for a capability no stored card lists is answered NotFound
\* (404, no provider); a storage failure is answered differently (500) and
\* an empty result is never reported as one
C14_NoProviderIsNotFound ==
    (dlast.op = "discover" /\ dlast.exchange.kind = "response") =>
        /\ (~dlast.fault /\ {c \in AckedCards : Lists(c, dlast.method)} = {}) =>
               dlast.exchange.status = 404
        /\ dlast.exchange.status = 404 =>
               ~dlast.fault /\ {c \in AckedCards : Lists(c, dlast.method)} = {}
        /\ dlast.fault => dlast.exchange.status = 500

C14_Witness ==
    /\ Discovered(404) /\ dlast.method = "ship"
    /\ ~dlast.fault
    /\ AckedCards # {}
    /\ conn # {}

\* C15: find_agents turns a 404 answer into an empty list and raises
\* nothing for it; every other failure (another error status, a network
\* error, a timeout) is raised to the caller, never turned into a list
C15_FindAgentsTranslatesNotFoundOnly ==
    dlast.op = "discover" =>
        IF dlast.exchange.kind = "error"
        THEN ~dlast.found.ok /\ dlast.found.exc.type = dlast.exchange.type
        ELSE /\ dlast.exchange.status = 404 =>
                    dlast.found.ok /\ dlast.found.val = {}
             /\ dlast.exchange.status = 200 =>
                    dlast.found.ok /\ dlast.found.val = dlast.exchange.cards
             /\ dlast.exchange.status \notin {200, 404} =>
                    ~dlast.found.ok /\ dlast.found.exc.type = "HTTPStatusError"

C15_Witness ==
    /\ Discovered(404)
    /\ dlast.found.ok
    /\ dlast.found.val = {}

Stored(rows, n) == {r \in rows : r.name = n}
Others(rows, n) == {r \in rows : r.name # n}
\* the write requests the step has handled
Handled == inflight \ inflight'

\* C16: deregister(name) answers ok (204) and removes the record when a
\* card of that name is stored, answers NotFound (404) and changes nothing
\* when none is; cards of other names are untouched, and the name is in no
\* discover or listAgents result until it is registered again
C16_Deregister ==
    [][/\ \A req \in Handled :
              (req.op = "deregister" /\ ~dlast'.fault) =>
                  /\ dlast'.op = "deregister" /\ dlast'.name = req.name
                  /\ IF Stored(conn, req.name) # {}
                     THEN dlast'.exchange.status = 204
                     ELSE dlast'.exchange.status = 404 /\ conn' = conn /\ db' = db
                  /\ Stored(conn', req.name) = {} /\ Stored(db', req.name) = {}
                  /\ Others(conn', req.name) = Others(conn, req.name)
                  /\ Others(db', req.name) = Others(db, req.name)
                  /\ \A c \in list_agents(conn', db', FALSE).cards : c.name # req.name
                  /\ \A q \in Capabilities :
                         \A c \in discover_agent(conn', db', q, FALSE).cards :
                             c.name # req.name
       /\ \A n \in AgentNames :
              (Stored(conn, n) = {} /\ Stored(conn', n) # {}) =>
                  \E req \in Handled : req.op = "register" /\ req.name = n
      ]_vars

C16_Witness ==
    /\ dlast.op = "deregister" /\ dlast.exchange.status = 204
    /\ dlast.prior \in CardPool
    /\ Stored(conn, dlast.name) = {}
    /\ Others(conn, dlast.name) # {}

\* every stored card is in listAgents and in discover of each capability
\* it lists
Discoverable ==
    \A r \in conn :
        /\ CardOfRow(r) \in list_agents(conn, db, FALSE).cards
        /\ \A q \in RangeOf(CardOfRow(r).capabilities) :
               CardOfRow(r) \in discover_agent(conn, db, q, FALSE).cards

\* a stored row goes away only when a deregister of its name is handled and
\* changes only when a write to its name is handled
LeavesByDeregisterOnly ==
    \A n \in AgentNames :
        /\ (Stored(conn, n) # {} /\ Stored(conn', n) = {}) =>
               \E req \in Handled : req.op = "deregister" /\ req.name = n
        /\ (Stored(db, n) # {} /\ Stored(db', n) = {}) =>
               \E req \in Handled : req.op = "deregister" /\ req.name = n
        /\ (Stored(conn, n) # {} /\ Stored(conn', n) # Stored(conn, n)) =>
               \E req \in Handled : req.name = n

\* C17: a stored card leaves the directory only through a deregister of
\* its name: it stays stored and discoverable after its agent has stopped
\* or crashed (no expiry), and no other operation removes it
C17_CardLeavesOnlyByDeregister ==
    [](Discoverable) /\ [][LeavesByDeregisterOnly]_vars

C17_Witness ==
    /\ "billing" \notin running
    /\ Stored(conn, "billing") # {}
    /\ Discovered(200)
    /\ \E c \in dlast.exchange.cards : c.name = "billing"
    /\ acked["support"] = Removed

\* the fields the round trip keeps (registered_at may be normalised)
SameFields(c1, c2) ==
    /\ c1.name = c2.name
    /\ c1.version = c2.version
    /\ c1.endpoint = c2.endpoint
    /\ c1.capabilities = c2.capabilities
    /\ c1.description = c2.description
    /\ c1.meta = c2.meta

C19_DurableAcrossRestart ==
    /\ {CardOfRow(r) : r \in db} = AckedCards
    /\ dlast.op = "restart" =>
           /\ list_agents(conn, db, FALSE).cards = AckedCards
           /\ \A q \in Capabilities :
                  discover_agent(conn, db, q, FALSE).cards = {c \in AckedCards : Lists(c, q)}
           /\ \A n \in AgentNames : acked[n] = Removed => Stored(conn, n) = {}

C19_Witness ==
    /\ dlast.op = "restart"
    /\ \E n \in AgentNames : acked[n] = Removed /\ Stored(conn, n) = {}
    /\ \E n \in AgentNames : acked[n] \in CardPool /\ Stored(conn, n) = {RowOf(acked[n])}

\* a reader sees whole cards only: every row, and every card of a discover
\* or listAgents answer, is one of the cards some registration sent, and the
\* row of a name is the row of the write applied last
NoPartialCard ==
    /\ \A r \in conn : \E c \in CardPool : r = RowOf(c)
    /\ \A n \in AckedNames : Stored(conn, n) = {RowOf(acked[n])}
    /\ (dlast.op \in {"discover", "list"} /\ dlast.exchange.kind = "response") =>
           dlast.exchange.cards \subseteq CardPool

\* a handled write replaces the record of its name as a whole and touches
\* no record of another name
WritesApplyWhole ==
    \A req \in Handled :
        /\ Others(conn', req.name) = Others(conn, req.name)
        /\ (req.op = "register" /\ dlast'.exchange.status = 201) =>
               Stored(conn', req.name) = {RowOf(req.card)}

\* C20: under every interleaving of registerAgent, deregister, discover and
\* listAgents requests each write is atomic per record: no reader sees a
\* partly written card, writes to different names in flight together are
\* both kept, and writes to one name leave the card of the write applied
\* last
C20_WritesAtomicPerRecord ==
    [](NoPartialCard) /\ [][WritesApplyWhole]_vars

C20_Witness ==
    /\ dlast.op = "register" /\ dlast.exchange.status = 201
    /\ dlast.prior \in CardPool /\ dlast.prior # dlast.card
    /\ \E req \in inflight :
           req.op = "register" /\ req.name = dlast.name /\ req.card # dlast.card
    /\ Stored(conn, dlast.name) = {RowOf(dlast.card)}
    /\ Others(conn, dlast.name) # {}

\* ===================================================================
\* client properties
\* ===================================================================
ClientTerminal == {"Failed", "ResultReceived", "ErrorReceived", "TransportFailed", "Fired"}

\* C21: when discovery returns no candidate for the capability, find_agent
\* and with it RPCClient.call fail with the no-agent-found error (a
\* RuntimeError) before a transport is opened or an envelope is sent: the
\* call is never in the state Sent and has made no POST
C21_NoAgentFoundBeforeAnySend ==
    (call.kind = "call" /\ call.found = Ret({}, 0)) =>
        /\ call.state = "Failed"
        /\ call.result = Raise(PyExc("RuntimeError", "No agents found for method"), 0)
        /\ call.posts = <<>>
        /\ call.agent = Null /\ call.url = Null

C21_Witness ==
    /\ call.kind = "call" /\ call.state = "Failed"
    /\ call.found = Ret({}, 0)
    /\ call.method = "nosuch"
    /\ conn # {}
    /\ call.result.exc.type = "RuntimeError"

\* the cards the directory holds for a capability
Matching(method) == {CardOfRow(r) : r \in Providers(conn, method)}

\* C22: find_agent only ever returns a card of the candidate list discovery
\* gave for the capability, never an agent outside the matching set, and
\* with two or more candidates each of them is a possible selection
C22_ChoiceIsAMatchingCardAndAnyOfThem ==
    /\ (call.kind = "call" /\ call.agent # Null) =>
           /\ call.candidates = Matching(call.method)
           /\ call.agent \in call.candidates
           /\ call.method \in RangeOf(call.agent.capabilities)
    /\ (call.kind = "call" /\ call.state = "Created") =>
           \A a \in Matching(call.method) :
               ENABLED (FindAgentSends("ok", FALSE) /\ call'.agent = a)

C22_Witness ==
    /\ call.kind = "call" /\ call.state = "Sent"
    /\ Cardinality(call.candidates) = 2
    /\ call.agent.name = "support"
    /\ Cardinality(Matching(call.method)) = 2

\* what the agent's dispatcher makes of the invocation's method and params
RemoteDispatch == dispatch(_methods, call.method, call.params, StrV(1))

\* C23: RPCClient.call posts one call envelope (with an id) for its method
\* and params to the endpoint of the agent find_agent chose; when the
\* response carries an error it raises the error with the remote code,
\* message and data, and otherwise it returns the response's result, for
\* every value the handler can return, null included
C23_CallReturnsResultOrRemoteError ==
    /\ (call.kind = "call" /\ call.state \in {"Sent", "ResultReceived", "ErrorReceived"}) =>
           /\ Len(call.posts) = 1
           /\ call.posts[1].url = call.agent.endpoint
           /\ IsCall(call.posts[1].envelope)
           /\ call.posts[1].envelope.method = Str(call.method)
           /\ call.posts[1].envelope.params = call.params
    /\ (call.kind = "call" /\ call.state \in {"ResultReceived", "ErrorReceived"}) =>
           /\ RemoteDispatch.ok =>
                  /\ call.state = "ResultReceived"
                  /\ call.result = Ret(RemoteDispatch.val.result, 0)
           /\ ~RemoteDispatch.ok =>
                  /\ call.state = "ErrorReceived"
                  /\ call.result = Raise(RemoteDispatch.exc, 0)

AtMostOnePost ==
    /\ Len(call.posts) <= 1
    /\ call.state \in {"Idle", "Created", "Failed"} => call.posts = <<>>
    /\ call.kind = "call" /\ call.posts # <<>> => call.posts[1].url = call.agent.endpoint
    /\ call.kind = "notify" /\ call.posts # <<>> => call.posts[1].url = call.url
NoSecondAttempt ==
    call.state \in ClientTerminal => call' = call

CallLifecycle ==
    (call'.kind = "call" /\ call' # call) =>
        \/ call.state = "Idle" /\ call'.state = "Created"
        \/ call.state = "Created" /\ call'.state \in {"Sent", "Failed"}
        \/ call.state = "Sent"
               /\ call'.state \in {"ResultReceived", "ErrorReceived", "TransportFailed"}
               /\ call'.posts = call.posts
\* a transport failure reaches the caller as the transport's exception
TransportFailureRaised ==
    (call.kind = "call" /\ call.state = "TransportFailed") =>
        /\ ~call.result.ok
        /\ call.result.exc.type \in {"ConnectError", "ReadTimeout", "HTTPStatusError"}
CallSent == call.kind = "call" /\ call.state = "Sent"
CallEnded ==
    call.kind = "call" /\ call.state \in {"ResultReceived", "ErrorReceived", "TransportFailed"}
AgentSilent == CallSent /\ ListensAt(call.url) \notin running

\* C25: an outbound call goes Created -> Sent -> exactly one of
\* ResultReceived, ErrorReceived and TransportFailed and takes no step after
\* that; the POST is bounded by the transport's timeout, so a call that was
\* sent always ends, and when the agent never answers it ends in
\* TransportFailed, raised to the caller as the transport's error with no
\* result
C25_CallLifecycleEnds ==
    /\ [][CallLifecycle]_vars
    /\ [](TransportFailureRaised)
    /\ (CallSent ~> CallEnded)
    /\ (AgentSilent ~> (call.state = "TransportFailed"))

C25_Witness ==
    /\ call.kind = "call" /\ call.state = "TransportFailed"
    /\ ListensAt(call.url) \in running
    /\ Routed(call.url)
    /\ call.result = Raise(PyExc("ReadTimeout", "network error"), 0)

\* ===================================================================
\* agent properties
\* ===================================================================
RegistrationFailed ==
    /\ startup.done
    /\ settings.auto_register
    /\ startup.exchange.kind = "error" \/ startup.exchange.status >= 400

Duplicate ==
    /\ registration.fn # Null
    /\ registration.fn.name \in DOMAIN registration.before
OthersKept ==
    \A n \in DOMAIN registration.before \ {registration.fn.name} :
        n \in DOMAIN _methods /\ _methods[n] = registration.before[n]

\* C27: register of a name already in the registry fails with the
\* duplicate error (ValueError) when the duplicate policy is "reject"
\* (warn_on_duplicate off) and leaves the existing descriptor in place;
\* under the other policy it overwrites without an error, get(name) then
\* returns the handler registered last and the name has one descriptor
C27_DuplicateRejectedOrOverwritten ==
    Duplicate =>
        /\ ~settings.warn_on_duplicate =>
               /\ ~registration.result.ok
               /\ registration.result.exc.type = "ValueError"
               /\ _methods = registration.before
        /\ settings.warn_on_duplicate =>
               /\ registration.result = Ret(registration.fn, 0)
               /\ get(_methods, registration.fn.name) = Ret(registration.fn, 0)
               /\ DOMAIN _methods = DOMAIN registration.before
               /\ OthersKept

C27_Witness ==
    /\ Duplicate
    /\ settings.warn_on_duplicate
    /\ registration.before[registration.fn.name] # registration.fn
    /\ _methods[registration.fn.name] = registration.fn
    /\ Cardinality(DOMAIN _methods) = 2

\* C28: in a registry built with strict_mode = True, registering a name
\* that is already registered fails and the first descriptor stays
C28_StrictModeRejectsDuplicates ==
    (Duplicate /\ settings.strict_mode) =>
        /\ ~registration.result.ok
        /\ _methods = registration.before

\* ===================================================================
\* error taxonomy
\* ===================================================================
Taxonomy == {-32700, -32600, -32601, -32602, -32603} \cup ServerErrorCodes

\* the entries of the handled request that were answered with an error
ErrorEntries ==
    {i \in DOMAIN outcome.log : EntryAt(i).has /\ "error" \in EntryAt(i).resp.keys}
\* the condition each code is named for, for the item of an entry
NamedCondition(i, code) ==
    CASE code = -32700 -> FALSE
      [] code = -32600 -> ~WellFormed(ItemAt(i))
      [] code = -32601 -> WellFormed(ItemAt(i)) /\ ~Registered(i)
      [] code = -32602 ->
             WellFormed(ItemAt(i)) /\ Registered(i) /\ ~Binds(HandlerAt(i), ItemAt(i).params)
      [] code = -32603 -> WellFormed(ItemAt(i))
      [] OTHER ->
             WellFormed(ItemAt(i)) /\ Registered(i) /\ Binds(HandlerAt(i), ItemAt(i).params)
\* the error of a body that could not be read
TopLevelError ==
    pc = "done" /\ request.raw \in {"empty", "garbage"} /\ Len(outcome.body) = 1

\* C29: every error object the server emits (top-level errors, single
\* responses, batch entries) carries a code of the taxonomy -32700, -32600,
\* -32601, -32602, -32603, -32099..-32000, and each code is used only for
\* the condition it is named for
C29_ErrorCodesFollowTaxonomy ==
    /\ TopLevelError =>
           /\ outcome.body[1].error.code \in Taxonomy
           /\ outcome.body[1].error.code = -32700 <=> request.raw = "garbage"
           /\ outcome.body[1].error.code = -32600 <=> request.raw = "empty"
    /\ pc = "done" =>
           \A i \in ErrorEntries :
               /\ EntryAt(i).resp.error.code \in Taxonomy
               /\ NamedCondition(i, EntryAt(i).resp.error.code)

\* the items of the handled request whose params are neither absent, a
\* list nor a mapping
OtherShaped ==
    {i \in DOMAIN outcome.log :
        /\ ItemAt(i).kind = "object"
        /\ ItemAt(i).params.shape = "other"
        /\ ItemAt(i).method.p = "str"
        /\ ItemAt(i).jsonrpc = "2.0"
        /\ ItemAt(i).id.t \in {"absent", "null", "int", "str"}}

\* C30: when params is neither absent, a list nor a mapping, the outcome is
\* InvalidParams (code -32602) at once and the handler is never invoked
C30_OtherShapedParamsAreInvalidParams ==
    pc = "done" =>
        \A i \in OtherShaped :
            /\ ~EntryAt(i).out.ok
            /\ EntryAt(i).out.calls = 0
            /\ EntryAt(i).out.exc.type = "JSONRPCError"
            /\ EntryAt(i).out.exc.code = -32602

\* ===================================================================
\* malformed payloads
\* ===================================================================
\* the single payloads RPCRequest.parse_obj rejects
Unparseable(it) == ~parse_obj(it).ok
\* the id that can be taken from a payload: a number or a string
SalvagedId(it) ==
    IF it.kind = "object" /\ it.id.t \in {"int", "str"} THEN it.id ELSE Null
SingleJson ==
    pc = "done" /\ request.via \in {"http", "stdio"} /\ request.raw = "json" /\ ~request.array

\* C31: a single decoded payload that does not parse into a Request (no
\* method or a method that is no string, params of a wrong shape, a payload
\* that is no object) is answered by one InvalidRequest error response,
\* code -32600, with the payload's id when it has a usable one and null
\* otherwise; no handler runs and no exception leaves the adapter
C31_UnparseableIsInvalidRequest ==
    (SingleJson /\ Unparseable(request.items[1])) =>
        /\ outcome.exc = "none"
        /\ Len(outcome.body) = 1
        /\ "error" \in outcome.body[1].keys
        /\ outcome.body[1].error.code = -32600
        /\ outcome.body[1].id = SalvagedId(request.items[1])
        /\ \A i \in DOMAIN outcome.log : outcome.log[i].out.calls = 0

\* C32: on the HTTP endpoint an empty body is answered by a top-level
\* invalid-request error (-32600) and a body that is no JSON by a top-level
\* parse error (-32700), each with a null id and a 4xx status, and no
\* handler is invoked
C32_UnreadableBodyIsTopLevelError ==
    (pc = "done" /\ request.via = "http" /\ request.raw # "json") =>
        /\ outcome.exc = "none"
        /\ outcome.status \in 400..499
        /\ Len(outcome.body) = 1
        /\ "error" \in outcome.body[1].keys
        /\ "result" \notin outcome.body[1].keys
        /\ outcome.body[1].id = Null
        /\ outcome.body[1].error.code = (IF request.raw = "empty" THEN -32600 ELSE -32700)
        /\ outcome.log = <<>>

\* ===================================================================
\* batch order
\* ===================================================================
\* a handler run from its call to its end without another one in between
RunWhole(method, st) ==
    IF Suspends(method) THEN RunAfterAwait(method, RunToAwait(method, st))
    ELSE RunToAwait(method, st)
ResultWhole(method, st) ==
    IF Suspends(method) THEN ResultOf(method, RunToAwait(method, st))
    ELSE ResultOf(method, st)
\* the store and the results of the items handled one after the other
RECURSIVE StoreAfter(_, _)
StoreAfter(items, st) ==
    IF items = <<>> THEN st
    ELSE StoreAfter(Tail(items), RunWhole(Head(items).method, st))
RECURSIVE ResultsInOrder(_, _)
ResultsInOrder(items, st) ==
    IF items = <<>> THEN <<>>
    ELSE <<ResultWhole(Head(items).method, st)>>
             \o ResultsInOrder(Tail(items), RunWhole(Head(items).method, st))

\* the dispatch of an item has started only when every earlier item's has
\* ended, and at most one dispatch is under way
OneAtATime ==
    /\ \A j \in batch.started : \A i \in 1..(j - 1) : i \in batch.ended
    /\ Cardinality(batch.started \ batch.ended) <= 1
\* every item saw the effects of the items before it
EarlierEffectsVisible ==
    /\ \A j \in batch.ended :
           batch.results[j] =
               ResultsInOrder(SubSeq(batch.items, 1, j), batch.store0)[j]
    /\ batch.phase = "done" =>
           /\ batch.store = StoreAfter(batch.items, batch.store0)
           /\ BatchBody(batch.items, batch.results) =
                  BatchBody(batch.items, ResultsInOrder(batch.items, batch.store0))

\* C33: the items of one batch are handled strictly in array order and
\* never concurrently: the dispatch of item i, the suspension points of an
\* asynchronous handler included, is over before the dispatch of item i+1
\* starts, and a later item sees the side effects of the earlier ones
C33_BatchItemsInOrder == OneAtATime /\ EarlierEffectsVisible

C33_Witness ==
    /\ batch.phase = "done"
    /\ Len(batch.items) = 2
    /\ batch.items[1].method = "process_payment"
    /\ batch.items[2].method = "get_balance"
    /\ ~batch.store0.paid
    /\ batch.results[1] = [t |-> "status", n |-> 1]
    /\ batch.results[2] = [t |-> "balance", n |-> batch.store0.invoices]

\* ===================================================================
\* handler kinds
\* ===================================================================
\* the registry with the handler of a name registered as the other kind
\* (async def instead of def, or the reverse), the same body and signature
OtherKind(fn) == [fn EXCEPT !.is_async = ~@]
WithOtherKind(methods, name) == [methods EXCEPT ![name] = OtherKind(@)]
\* the request id dispatch was called with for an item
DispatchIdAt(i) == IF EntryAt(i).kind = "notification" THEN Null ELSE GetId(ItemAt(i))

\* C34: dispatch does not depend on the kind of the handler: for the same
\* method, params and handler body, a handler registered as a coroutine
\* function and one registered as a plain function give the same outcome,
\* the same result or the same error
C34_SyncAndAsyncHandlersAgree ==
    pc = "done" =>
        \A i \in Dispatched :
            Registered(i) =>
                EntryAt(i).out =
                    dispatch(WithOtherKind(_methods, ItemAt(i).method.name),
                             ItemAt(i).method.name, ItemAt(i).params, DispatchIdAt(i))

\* ===================================================================
\* the card pushed at startup
\* ===================================================================
Pushed == startup.done /\ startup.card # Null
\* what call_method makes of the agent's answer to a call posted to the
\* endpoint of the pushed card
CallAtCard(method, params) ==
    call_method_response(
        AgentExchange("ok", TRUE, _methods,
                      Post(startup.card.endpoint, RequestDict(method, params, StrV(1)))))

\* C35: the endpoint of the card an agent pushes at startup is the address
\* at which the agent accepts RPC envelopes, the /jsonrpc path included: a
\* call posted there for a capability of the card reaches the agent's
\* adapter and is answered by it
C35_CardEndpointAcceptsCalls ==
    Pushed =>
        /\ ListensAt(startup.card.endpoint) = "billing"
        /\ Routed(startup.card.endpoint)
        /\ \A m \in RangeOf(startup.card.capabilities), p \in ClientParams :
               \/ CallAtCard(m, p).ok
               \/ CallAtCard(m, p).exc.type # "HTTPStatusError"

Advertised == IF startup.card = Null THEN {} ELSE RangeOf(startup.card.capabilities)
\* the card built by on_startup lists the registered names, each once
AdvertisesRegistry ==
    (~startup.done /\ startup'.done /\ startup'.card # Null) =>
        /\ RangeOf(startup'.card.capabilities) = DOMAIN _methods
        /\ Len(startup'.card.capabilities) = Cardinality(DOMAIN _methods)
NeverUnregisters == DOMAIN _methods \subseteq DOMAIN _methods'
AdvertisedStaysDispatchable ==
    /\ \A m \in Advertised : get(_methods, m).ok
    /\ (pc = "done" /\ request.raw = "json") =>
           \A i \in DOMAIN outcome.log :
               (EntryAt(i).kind \in {"call", "notification"}
                   /\ ItemAt(i).method.name \in Advertised) =>
                   EntryAt(i).out =
                       dispatch_result(_call_fn(HandlerAt(i), ItemAt(i).params),
                                       DispatchIdAt(i))

\* C36: the capabilities an agent advertises at startup are exactly the
\* method names in its registry at that moment; the registry never removes
\* a method, so every advertised capability stays dispatchable: its lookup
\* never fails
C36_AdvertisedCapabilitiesAreRegistered ==
    /\ [][AdvertisesRegistry]_vars
    /\ [][NeverUnregisters]_vars
    /\ [](AdvertisedStaysDispatchable)

C36_Witness ==
    /\ Pushed
    /\ Advertised = {"add"}
    /\ DOMAIN _methods = {"add", "noop"}
    /\ _methods["add"].is_async
    /\ pc = "done"
    /\ request.items[1].method.name = "add"
    /\ outcome.status = 200
    /\ outcome.body[1].result = IntV(1)

\* ===================================================================
\* invocations
\* ===================================================================
\* the envelopes whose handler is to run: well-formed, naming a registered
\* method, with params that bind
Invocable(it) ==
    /\ WellFormed(it)
    /\ it.method.name \in DOMAIN _methods
    /\ Binds(_methods[it.method.name], it.params)

\* C37: each envelope the HTTP adapter receives causes at most one run of
\* its handler: exactly one for a well-formed call or notification that
\* names a registered method and whose params bind, none for a malformed
\* envelope or an unregistered method, and no second run after a failure
C37_OneInvocationPerEnvelope ==
    (pc = "done" /\ request.via = "http" /\ request.raw = "json") =>
        /\ \A i \in DOMAIN outcome.log : EntryAt(i).out.calls <= 1
        /\ \A i \in DOMAIN request.items :
               IF Invocable(request.items[i])
               THEN i \in DOMAIN outcome.log /\ EntryAt(i).out.calls = 1
               ELSE i \in DOMAIN outcome.log => EntryAt(i).out.calls = 0

\* ===================================================================
\* the two adapters
\* ===================================================================
\* the same payload handled by HTTPTransport.handle and by
\* RPCMethodRegistry._handle_payload of a registry whose dispatcher is set
ByHTTP == HTTP_handle(_methods, request)
ByRegistry == REG_handle_payload(TRUE, _methods, request)

\* C38: the two adapters agree: for every decoded payload (a call, a
\* notification, a malformed envelope, a batch) _handle_payload and
\* HTTPTransport.handle give the same response envelopes: a response or
\* none, the same ids, the same result or the same error code
C38_AdaptersAgree ==
    (pc = "done" /\ request.via \in {"http", "stdio"} /\ request.raw = "json") =>
        /\ (ByHTTP.exc = "none") = (ByRegistry.exc = "none")
        /\ ByHTTP.array = ByRegistry.array
        /\ Len(ByHTTP.body) = Len(ByRegistry.body)
        /\ \A j \in DOMAIN ByHTTP.body :
               /\ ByHTTP.body[j].keys = ByRegistry.body[j].keys
               /\ ByHTTP.body[j].id = ByRegistry.body[j].id
               /\ ByHTTP.body[j].result = ByRegistry.body[j].result
               /\ ByHTTP.body[j].error.code = ByRegistry.body[j].error.code

\* ===================================================================
\* _call_fn
\* ===================================================================
\* what _call_fn gives for the item's handler and params
CallFnAt(i) == _call_fn(HandlerAt(i), ItemAt(i).params)
IsInvalidParams(r) == ~r.ok /\ r.exc.type = "JSONRPCError" /\ r.exc.code = -32602

\* C39: _call_fn raises InvalidParams only when the params could not be
\* bound to the handler, that is only when the body never ran; after a run
\* of the body on bound params, an InvalidParams leaving _call_fn is the
\* one the body raised itself, never a TypeError of the body turned into it
C39_InvalidParamsOnlyWhenUnbound ==
    pc = "done" =>
        \A i \in Dispatched :
            (Registered(i) /\ IsInvalidParams(CallFnAt(i)) /\ CallFnAt(i).calls > 0) =>
                CallFnAt(i) =
                    HandlerValue(HandlerAt(i), ArgSeq(HandlerAt(i), ItemAt(i).params))
====
